---------------------------- MODULE Spec2Model ----------------------------
(***************************************************************************)
(* A model of the defect detector of vision-bot (package vision, the       *)
(* GoCVDetector of src/unnamed/part_006, lines 1092-2872) and of the       *)
(* operations around it.                                                   *)
(*                                                                         *)
(* Numbers.  The detector compares float64 ratios with float64             *)
(* thresholds.  A ratio is kept here as an exact fraction [num, den] of    *)
(* two integers and a threshold as the integer number of hundredths (or    *)
(* ten-thousandths) the source writes, so that r >= 0.30 reads             *)
(* r.num * 100 >= 30 * r.den.                                              *)
(***************************************************************************)
EXTENDS Integers, Sequences, FiniteSets, TLC

VARIABLES
    boxPc,      \* position of the candidate-list harness: "build" | "done"
    cands,      \* the candidate list handed to suppressDuplicateDefects
    kept,       \* the list it returned
    insPc,      \* position of Inspect: "start" | "decoded" | "gated" | "done" | "idle"
    insIn,      \* Inspect's argument imageData
    insMat,     \* the decoded image mat
    insGate,    \* what checkImageQuality returned: [reason, metrics]
    insErr,     \* the error Inspect returned ("" for nil)
    insRes,     \* the InspectionResult Inspect returned
    difPc,      \* position of InspectDiff, "idle" when it is not called
    baseImage,  \* InspectDiff's arguments
    currentImage,
    baseMat,    \* the locals of InspectDiff, named as in the source
    currentMat,
    baseGate,   \* what checkImageQuality returned for each image
    currentGate,
    baseMask,
    currentMask,
    aligned,    \* what alignCurrentToBase returned
    currentForDiff,
    currentMaskForROI,
    innerROIMask,
    brokenMode,
    structuralInput,
    geometryMode,
    geometryMask,
    geometryReason,
    difThresh,  \* the thresholded difference (thresh)
    threshInput,
    ppMemo,     \* postProcessDiffMask's arguments and results so far in the call
    difPath,    \* the return statement taken
    liveMats,   \* the Mats created and not yet closed
    deferred,   \* the Mats a defer of InspectDiff closes at return
    difErr,     \* the error InspectDiff returned (<<>> for nil)
    difRes,     \* the InspectionResult InspectDiff returned
    detectorFields, \* the fields of the GoCVDetector the methods are called on
    callNo,     \* which call of InspectDiff on the same arguments runs: 1, 2 (0: not counted)
    callLog,    \* what gocv answered at each step of the first call
    firstOut,   \* <<what the first call returned>>, <<>> before it has
    detector,   \* InspectionService.detector: "nil" or "GoCVDetector"
    users,      \* MemoryUserRepository.users: the record stored for a user ID (0: none)
    userRecs,   \* the entity.User records allocated so far
    originals,  \* InspectionService.originals: <<photo>> for a user ID (<<>>: no entry)
    svcCalls,   \* calls of the services made so far
    svcRet,     \* what the last call returned
    thPc,       \* where each goroutine calling the user service is
    thOp,       \* the method it called: "Get" or "SetState"
    thUser,     \* its argument userID
    thState,    \* its argument state (SetState)
    thRet,      \* the record Get returned to it (0: none yet)
    botUpdates, \* updates the bot's Run loop has handled
    botUpdate,  \* the update it handled last: <<[user, msg]>> (<<>>: none yet)
    botReply,   \* the text the last handler sent
    jobs,       \* the processDefectPhoto goroutines started so far
    mergePc,    \* mergeNearbyDefects: "build" | "call" | "done" | "idle"
    mergeIn,    \* the list its caller passed
    mergeList,  \* the argument defects of the running (recursive) call
    mergeDistance,  \* the argument distance
    mergeRecursed,  \* whether it has called itself
    mergeOut,   \* the list it returned
    fnPc,       \* a call of a pure function: "start" | "done" | "idle"
    fnIn,       \* its arguments
    fnOut       \* what it returned

boxVars == <<boxPc, cands, kept>>
insVars == <<insPc, insIn, insMat, insGate, insErr, insRes>>
difVars == <<difPc, baseImage, currentImage, baseMat, currentMat, baseGate, currentGate,
             baseMask, currentMask, aligned, currentForDiff, currentMaskForROI,
             innerROIMask, brokenMode, structuralInput, geometryMode, geometryMask,
             geometryReason, difThresh, threshInput, ppMemo, difPath, liveMats,
             deferred,
             difErr, difRes>>
repVars == <<detectorFields, callNo, callLog, firstOut>>
svcVars == <<detector, users, userRecs, originals, svcCalls, svcRet,
             thPc, thOp, thUser, thState, thRet>>
botVars == <<botUpdates, botUpdate, botReply, jobs>>
mrgVars == <<mergePc, mergeIn, mergeList, mergeDistance, mergeRecursed, mergeOut>>
fnVars == <<fnPc, fnIn, fnOut>>
vars == <<boxVars, insVars, difVars, repVars, svcVars, botVars, mrgVars, fnVars>>
\* what an operation of one group leaves alone
otherThanBox == <<insVars, difVars, repVars, svcVars, botVars, mrgVars, fnVars>>
otherThanIns == <<boxVars, difVars, repVars, svcVars, botVars, mrgVars, fnVars>>
otherThanDiff == <<boxVars, insVars, repVars, svcVars, botVars, mrgVars, fnVars>>
otherThanSvc == <<boxVars, insVars, difVars, repVars, botVars, mrgVars, fnVars>>
otherThanBot == <<boxVars, insVars, difVars, repVars, mrgVars, fnVars>>
otherThanMerge == <<boxVars, insVars, difVars, repVars, svcVars, botVars, fnVars>>
otherThanFn == <<boxVars, insVars, difVars, repVars, svcVars, botVars, mrgVars>>

-----------------------------------------------------------------------------
(* Bounds of the model.                                                    *)
MaxPos == 1         \* candidate boxes start at X in 0..MaxPos
MaxDim == 2         \* and have Width, Height in 1..MaxDim
MaxCands == 3       \* length of a candidate list
MaxContours == 2    \* contours FindContours hands to one extraction
NCells == 3         \* blocks a frame is divided into, left to right
MaxUsers == 2       \* user IDs 1..MaxUsers
MaxCalls == 3       \* calls of the services in one run
MaxThreads == 2     \* goroutines calling the user service at the same time
MaxUpdates == 6     \* updates the bot receives in one run
MaxCandArea == 4    \* candidates handed to keepDominantBrokenDefects have Area in 0..MaxCandArea
MaxMergePos == 4    \* candidates handed to mergeNearbyDefects start at X in 0..MaxMergePos

(* Detection profile, NewGoCVDetector.                                     *)
MinAreaRatioPm == 10            \* MinAreaRatio: 0.001, in 1/10000
MinAspectRatioPct == 10         \* MinAspectRatio: 0.1
MaxAspectRatioPct == 1000       \* MaxAspectRatio: 10.0
MaxSide == 1024
MinImageSide == 400
MinSharpnessEdgeRatioPm == 80   \* MinSharpnessEdgeRatio: 0.008, in 1/10000
MaxOverexposedRatioPct == 35    \* MaxOverexposedRatio: 0.35
MaxUnderexposedRatioPct == 45   \* MaxUnderexposedRatio: 0.45
MaxGlareRatioPct == 20          \* MaxGlareRatio: 0.20
DiffMaxGlareRatioPct == 26      \* DiffMaxGlareRatio: 0.26
MinPartAreaRatioPct == 5        \* MinPartAreaRatio: 0.05
ROIMarginKernel == 9
EnableRegistration == TRUE
MinAlignmentScorePct == 25      \* MinAlignmentScore: 0.25
MinContourAreaRatioPpm == 120   \* MinContourAreaRatio: 0.00012, in 1/1000000
MinFillRatioPct == 8            \* MinFillRatio: 0.08
NMSIoUThresholdPct == 30        \* NMSIoUThreshold: 0.30
NMSContainmentRatioPct == 80    \* NMSContainmentRatio: 0.80
BrokenMinComponentRatioPm == 60 \* BrokenMinComponentRatio: 0.006, in 1/10000
BrokenAreaLossRatioPct == 6     \* BrokenAreaLossRatio: 0.06
BrokenFocusExpand == 49
BrokenMinOverlapRatioPct == 10  \* BrokenMinOverlapRatio: 0.10
BrokenMergeDistance == 48
BrokenSecondRelMinPct == 5      \* BrokenSecondRelMin: 0.05
BrokenDominantMinRatioPct == 50 \* BrokenDominantMinRatio: 0.50
EnableGeometryCheck == TRUE
GeometryMatchMaxScorePct == 10  \* GeometryMatchMaxScore: 0.10
GeometryMinConcavity == 8
GeometryMinConcavityGap == 2
GeometryPolygonVertexGap == 2
GeometryPolygonMinCircularityPct == 55  \* GeometryPolygonMinCircularity: 0.55
GeometryPolygonMinExtentPct == 55       \* GeometryPolygonMinExtent: 0.55
GeometryRoundMinCircularityPct == 82    \* GeometryRoundMinCircularity: 0.82
GeometryRoundMaxCircularityGapPct == 10 \* GeometryRoundMaxCircularityGap: 0.10
\* detectBrokenPartMask's literal: minComponentArea*0.45 for the eroded mask
ErodedComponentPct == 45
\* checkImageQuality's literals
RelaxedROIRatioPct == 90        \* relaxedPhotometricGate := roiRatio > 0.90
RelaxedSharpnessPct == 35       \* minEdgeRatio *= 0.35

\* the detector NewGoCVDetector returns; the fields the model does not read
\* are written in the unit of the comment
NewGoCVDetector ==
    [MinAreaRatio |-> MinAreaRatioPm,
     MinAspectRatio |-> MinAspectRatioPct,
     MaxAspectRatio |-> MaxAspectRatioPct,
     MaxSide |-> MaxSide,
     MinImageSide |-> MinImageSide,
     MinSharpnessEdgeRatio |-> MinSharpnessEdgeRatioPm,
     MaxOverexposedRatio |-> MaxOverexposedRatioPct,
     MaxUnderexposedRatio |-> MaxUnderexposedRatioPct,
     MaxGlareRatio |-> MaxGlareRatioPct,
     DiffMaxGlareRatio |-> DiffMaxGlareRatioPct,
     MinPartAreaRatio |-> MinPartAreaRatioPct,
     PartSecondaryAreaRatio |-> 40,      \* 0.004, in 1/10000
     PartSecondaryRelRatio |-> 4,        \* 0.04, in 1/100
     ROIMarginKernel |-> ROIMarginKernel,
     EnableRegistration |-> EnableRegistration,
     MinAlignmentScore |-> MinAlignmentScorePct,
     DiffMinThreshold |-> 22,
     DiffOpenKernel |-> 3,
     DiffCloseKernel |-> 7,
     MinContourAreaRatio |-> MinContourAreaRatioPpm,
     MinFillRatio |-> MinFillRatioPct,
     NMSIoUThreshold |-> NMSIoUThresholdPct,
     NMSContainmentRatio |-> NMSContainmentRatioPct,
     BrokenMinComponentRatio |-> BrokenMinComponentRatioPm,
     BrokenAreaLossRatio |-> BrokenAreaLossRatioPct,
     BrokenFocusExpand |-> BrokenFocusExpand,
     BrokenMergeDistance |-> BrokenMergeDistance,
     BrokenMinOverlapRatio |-> BrokenMinOverlapRatioPct,
     BrokenSplitKernel |-> 17,
     BrokenSecondRelMin |-> BrokenSecondRelMinPct,
     BrokenDominantMinRatio |-> BrokenDominantMinRatioPct,
     EnableGeometryCheck |-> EnableGeometryCheck,
     GeometryMatchMaxScore |-> GeometryMatchMaxScorePct,
     GeometryMinConcavity |-> GeometryMinConcavity,
     GeometryMinConcavityGap |-> GeometryMinConcavityGap,
     GeometryPolygonVertexGap |-> GeometryPolygonVertexGap,
     GeometryPolygonMinCircularity |-> GeometryPolygonMinCircularityPct,
     GeometryPolygonMinExtent |-> GeometryPolygonMinExtentPct,
     GeometryRoundMinCircularity |-> GeometryRoundMinCircularityPct,
     GeometryRoundMaxCircularityGap |-> GeometryRoundMaxCircularityGapPct,
     GeometryRingKernel |-> 41]

-----------------------------------------------------------------------------
(* Helpers.                                                                *)
maxInt(a, b) == IF a > b THEN a ELSE b

\* a minInt that returns its first argument
minInt_First(a, b) == a

minInt(a, b) == IF a < b THEN a ELSE b
absInt(v) == IF v < 0 THEN -v ELSE v

Ratio(n, d) == [num |-> n, den |-> d]
Zero == Ratio(0, 1)
\* r >= pct/100 and r > pct/100 for a fraction r with r.den > 0
GeqPct(r, pct) == r.num * 100 >= pct * r.den
GtPct(r, pct) == r.num * 100 > pct * r.den

\* One entry of a candidate's Reason: the tag of the stage that wrote it and
\* n, standing for the numbers the source prints after the tag.
ReasonEntry(tag, n) == [tag |-> tag, n |-> n]

\* image.Rectangle
Rect(x0, y0, x1, y1) == [x0 |-> x0, y0 |-> y0, x1 |-> x1, y1 |-> y1]
Dx(r) == r.x1 - r.x0
Dy(r) == r.y1 - r.y0

\* a result whose flag is raised only by two defects or more
InspectionResult_FlagFromSeveral(w, h, defects) ==
    [ImageWidth |-> w, ImageHeight |-> h, Defects |-> defects,
     HasDefects |-> Len(defects) > 1]

\* entity.InspectionResult
InspectionResult(w, h, defects) ==
    [ImageWidth |-> w, ImageHeight |-> h, Defects |-> defects,
     HasDefects |-> Len(defects) > 0]

\* the zero value: no result returned
NoResult == [ImageWidth |-> 0, ImageHeight |-> 0, Defects |-> <<>>, HasDefects |-> FALSE]

\* entity.DefectArea
DefectArea(x, y, w, h, area, reason) ==
    [X |-> x, Y |-> y, Width |-> w, Height |-> h, Area |-> area, Reason |-> reason]

-----------------------------------------------------------------------------
(* Box geometry.                                                           *)
intersectionArea(a, b) ==
    LET ax2 == a.X + a.Width
        ay2 == a.Y + a.Height
        bx2 == b.X + b.Width
        by2 == b.Y + b.Height
        ix1 == maxInt(a.X, b.X)
        iy1 == maxInt(a.Y, b.Y)
        ix2 == minInt(ax2, bx2)
        iy2 == minInt(ay2, by2)
    IN  IF ix2 <= ix1 \/ iy2 <= iy1 THEN 0 ELSE (ix2 - ix1) * (iy2 - iy1)

boxIoU(a, b) ==
    LET inter == intersectionArea(a, b)
        union == a.Area + b.Area - inter
    IN  IF inter <= 0 THEN Zero
        ELSE IF union <= 0 THEN Zero
        ELSE Ratio(inter, union)

boxContainment(a, b) ==
    LET inter == intersectionArea(a, b)
        minArea == minInt(a.Area, b.Area)
    IN  IF inter <= 0 THEN Zero
        ELSE IF minArea <= 0 THEN Zero
        ELSE Ratio(inter, minArea)

-----------------------------------------------------------------------------
(* suppressDuplicateDefects: sort by Area descending, then keep a          *)
(* candidate unless it reaches a threshold against one already kept.       *)

\* sort.Slice(defects, Area descending).  For the short slices of the model
\* (fewer than 12 elements) Go's sort.Slice is an insertion sort, which keeps
\* the order of candidates of equal Area.
\* a sort whose order of equal areas depends on the call it runs in
RECURSIVE InsertByArea_TieOrderByCall(_, _)
InsertByArea_TieOrderByCall(sorted, c) ==
    IF sorted = <<>> THEN <<c>>
    ELSE IF c.Area > Head(sorted).Area \/ (callNo = 2 /\ c.Area = Head(sorted).Area)
         THEN <<c>> \o sorted
    ELSE <<Head(sorted)>> \o InsertByArea_TieOrderByCall(Tail(sorted), c)

RECURSIVE InsertByArea(_, _)
InsertByArea(sorted, c) ==
    IF sorted = <<>> THEN <<c>>
    ELSE IF c.Area > Head(sorted).Area THEN <<c>> \o sorted
    ELSE <<Head(sorted)>> \o InsertByArea(Tail(sorted), c)

RECURSIVE SortByAreaDesc(_)
SortByAreaDesc(s) ==
    IF s = <<>> THEN <<>>
    ELSE InsertByArea(SortByAreaDesc(SubSeq(s, 1, Len(s) - 1)), s[Len(s)])

\* the inner loop's condition: candidate is dropped against existing
NMSConflictDropsBoth(candidate, existing) ==
    /\ GeqPct(boxIoU(candidate, existing), NMSIoUThresholdPct)
    /\ GeqPct(boxContainment(candidate, existing), NMSContainmentRatioPct)

NMSConflict(candidate, existing) ==
    \/ GeqPct(boxIoU(candidate, existing), NMSIoUThresholdPct)
    \/ GeqPct(boxContainment(candidate, existing), NMSContainmentRatioPct)

RECURSIVE NMSLoop(_, _)
NMSLoop(sorted, keptSoFar) ==
    IF sorted = <<>> THEN keptSoFar
    ELSE LET candidate == Head(sorted)
             drop == \E i \in 1..Len(keptSoFar) : NMSConflict(candidate, keptSoFar[i])
         IN  NMSLoop(Tail(sorted),
                     IF drop THEN keptSoFar ELSE Append(keptSoFar, candidate))

suppressDuplicateDefects(defects) ==
    IF Len(defects) < 2 THEN defects
    ELSE NMSLoop(SortByAreaDesc(defects), <<>>)

-----------------------------------------------------------------------------
(* extractDefectsFromContours.  A contour is what the source reads of it:  *)
(* its bounding rectangle (gocv.BoundingRect) and its area                 *)
(* (gocv.ContourArea, kept as a whole number of pixels).                   *)
Contour(rect, area) == [rect |-> rect, area |-> area]

\* the loop body's filters: TRUE when the contour becomes a candidate
PassesContourFilters(c, imageWidth, imageHeight) ==
    LET rectArea == Dx(c.rect) * Dy(c.rect)
        \* int(float64(imageWidth*imageHeight) * d.MinAreaRatio)
        minRectArea == (imageWidth * imageHeight * MinAreaRatioPm) \div 10000
    IN  /\ ~(rectArea < minRectArea \/ rectArea <= 0)
        /\ Dy(c.rect) # 0
        \* contourArea >= float64(imageWidth*imageHeight) * d.MinContourAreaRatio
        \* (the area is a whole number, so it is compared with the bound rounded up)
        /\ c.area >= (imageWidth * imageHeight * MinContourAreaRatioPpm + 999999) \div 1000000
        \* aspect := Dx / Dy within [MinAspectRatio, MaxAspectRatio]
        /\ Dx(c.rect) * 100 >= MinAspectRatioPct * Dy(c.rect)
        /\ Dx(c.rect) * 100 <= MaxAspectRatioPct * Dy(c.rect)
        \* fillRatio := contourArea / rectArea >= MinFillRatio
        /\ c.area * 100 >= MinFillRatioPct * rectArea

CandidateOfContour(c, reasonTag) ==
    DefectArea(c.rect.x0, c.rect.y0, Dx(c.rect), Dy(c.rect),
               Dx(c.rect) * Dy(c.rect),
               <<ReasonEntry(reasonTag, c.area)>>)

RECURSIVE ContourCandidates(_, _, _, _)
ContourCandidates(contours, imageWidth, imageHeight, reasonTag) ==
    IF contours = <<>> THEN <<>>
    ELSE LET rest == ContourCandidates(Tail(contours), imageWidth, imageHeight, reasonTag)
         IN  IF PassesContourFilters(Head(contours), imageWidth, imageHeight)
             THEN <<CandidateOfContour(Head(contours), reasonTag)>> \o rest
             ELSE rest

extractDefectsFromContours(contours, imageWidth, imageHeight, reasonTag) ==
    LET tag == IF reasonTag = "" THEN "contour" ELSE reasonTag
    IN  suppressDuplicateDefects(ContourCandidates(contours, imageWidth, imageHeight, tag))

-----------------------------------------------------------------------------
(* Images.  A decoded image is described by what the detector measures of  *)
(* it: its size, what buildPartMask's segmentation finds, and the ratios   *)
(* checkImageQuality computes inside the interior mask.                    *)
(*   seg      "none": Canny + dilate give no contour; "small": the largest *)
(*            contour is below MinPartAreaRatio; "part": a part is found   *)
(*   roiPct   non-zero pixels of the interior mask, percent of the frame   *)
(*   edgePm   Canny(80,160) edge pixels in the ROI, 1/10000 of the ROI     *)
(*   overPct, underPct, glarePct   the thresholded pixels in the ROI       *)
(*   part     the blocks of the frame the drawn part covers (seg = "part") *)
(*   pix      a number standing for the pixel content: two images are      *)
(*            pixel-identical exactly when all their fields are equal      *)
Cells == 1..NCells

Img(cols, rows, seg, roiPct, edgePm, overPct, underPct, glarePct, part, pix) ==
    [cols |-> cols, rows |-> rows, seg |-> seg, roiPct |-> roiPct, edgePm |-> edgePm,
     overPct |-> overPct, underPct |-> underPct, glarePct |-> glarePct,
     part |-> part, pix |-> pix]

\* gocv.NewMat(): a mat without pixels
NoMat == Img(0, 0, "none", 0, 0, 0, 0, 0, {}, 0)
Empty(mat) == mat.cols = 0 \/ mat.rows = 0

\* buildPartMask, which mask it returns: the whole frame when no contour is
\* found or the largest is too small, else the drawn part
PartMaskKind(mat) ==
    IF Empty(mat) THEN "empty"
    ELSE IF mat.seg = "part" THEN "part" ELSE "whole"

GateResult(reason, metrics) == [reason |-> reason, metrics |-> metrics]
GatePassed == ""

\* the sharpness floor: edgeRatio < minEdgeRatio, relaxed by 0.35
Blurry(mat, relaxed) ==
    IF relaxed
    THEN mat.edgePm * 100 < MinSharpnessEdgeRatioPm * RelaxedSharpnessPct
    ELSE mat.edgePm < MinSharpnessEdgeRatioPm

TooSmallBothSides(mat) == mat.cols < MinImageSide /\ mat.rows < MinImageSide

TooSmall(mat) == mat.cols < MinImageSide \/ mat.rows < MinImageSide

\* checkImageQuality(mat, label, glareLimit): the reason of the error it
\* returns (GatePassed for nil) and the metrics it evaluated on the way
checkImageQuality(mat, glareLimitPct) ==
    LET relaxed == mat.roiPct > RelaxedROIRatioPct
    IN  IF Empty(mat) THEN GateResult("empty image", <<>>)
        ELSE IF TooSmall(mat) THEN GateResult("image is too small", <<>>)
        ELSE IF mat.roiPct = 0 THEN GateResult("part ROI is empty", <<"roi">>)
        ELSE IF Blurry(mat, relaxed)
             THEN GateResult("image is blurry", <<"roi", "sharpness">>)
        ELSE IF ~relaxed /\ mat.overPct > MaxOverexposedRatioPct
             THEN GateResult("overexposed image", <<"roi", "sharpness", "overexposure">>)
        ELSE IF ~relaxed /\ mat.underPct > MaxUnderexposedRatioPct
             THEN GateResult("underexposed image",
                             <<"roi", "sharpness", "overexposure", "underexposure">>)
        ELSE IF ~relaxed /\ mat.glarePct > glareLimitPct
             THEN GateResult("too much glare",
                             <<"roi", "sharpness", "overexposure", "underexposure", "glare">>)
        ELSE GateResult(GatePassed,
                        <<"roi", "sharpness", "overexposure", "underexposure", "glare">>)

\* The images of the model.  A whole-frame mask survives buildInteriorMask's
\* erosion whole (roiPct = 100); a drawn part leaves some smaller ROI.
Sides == {MinImageSide - 1, MinImageSide, 2 * MaxSide}
Images ==
    { Img(c, r, seg, roi, e, o, u, g, Cells, 0) :
        c \in Sides, r \in Sides, seg \in {"none", "small", "part"},
        roi \in {50, 95, 100}, e \in {0, 27, 28, 79, 80},
        o \in {0, 35, 36}, u \in {0, 45, 46, 100}, g \in {0, 20, 21, 27} }
WellFormed(img) == (img.seg # "part") => (img.roiPct = 100 /\ img.part = Cells)

\* an all-black frame: no edge anywhere, so no contour and a whole-frame
\* mask; every pixel is below 20, none above 250, none of high value
AllBlack(img) ==
    /\ img.seg = "none" /\ img.roiPct = 100
    /\ img.edgePm = 0 /\ img.overPct = 0 /\ img.underPct = 100 /\ img.glarePct = 0

\* encoded bytes: either they decode to an image or they do not
Bytes(decodable, img) == [decodable |-> decodable, img |-> img]
Garbage == Bytes(FALSE, NoMat)
InputBytes == {Garbage} \cup { Bytes(TRUE, i) : i \in {j \in Images : WellFormed(j)} }

\* decodeToMat: the mat and the error
decodeToMat(imageData) ==
    IF imageData.decodable /\ ~Empty(imageData.img)
    THEN [mat |-> imageData.img, err |-> ""]
    ELSE [mat |-> NoMat, err |-> "failed to decode image"]

\* FindContours' answers in a frame of the given size: rectangles of several
\* sizes and fill ratios, some failing each filter of the extraction
ContourSet(w, h) ==
    { Contour(Rect(x, 0, x + d[1], d[2]), (d[1] * d[2]) \div fillDiv) :
        x \in {0, w \div 4},
        d \in {<<w \div 40, h \div 40>>, <<w \div 2, h \div 4>>, <<w \div 2, h \div 40>>},
        fillDiv \in {2, 20} }
ContourLists(w, h) ==
    UNION { [1..n -> ContourSet(w, h)] : n \in 0..MaxContours }

-----------------------------------------------------------------------------
(* Masks.  A single-channel mask is kept at the granularity of NCells      *)
(* vertical blocks of the frame: cells is the set of blocks whose pixels   *)
(* are non-zero.  Odd blocks are wide and even blocks narrow, so that two  *)
(* components can lie nearer than BrokenMergeDistance.  The bitwise        *)
(* operations act block by block; the morphological operations, whose      *)
(* result depends on the pixels inside a block, are left to the caller to  *)
(* choose among the results their definition allows.                       *)
Mask(cols, rows, cells) == [cols |-> cols, rows |-> rows, cells |-> cells]
NoMask == Mask(0, 0, {})

\* Mat.Empty(): no pixel data at all (a mask of zeros is not Empty)
MaskEmpty(m) == m.cols = 0 \/ m.rows = 0
CountNonZero(m) == Cardinality(m.cells)

BitwiseAnd(a, b) == Mask(a.cols, a.rows, a.cells \cap b.cells)
BitwiseOr(a, b) == Mask(a.cols, a.rows, a.cells \cup b.cells)
BitwiseXor(a, b) == Mask(a.cols, a.rows, (a.cells \ b.cells) \cup (b.cells \ a.cells))

\* widths of the blocks in units, and the x coordinate where block k ends
UnitsOf(i) == IF i % 2 = 1 THEN 9 ELSE 2
RECURSIVE UnitsUpTo(_)
UnitsUpTo(k) == IF k = 0 THEN 0 ELSE UnitsUpTo(k - 1) + UnitsOf(k)
CellX(k, cols) == IF k = NCells THEN cols ELSE (cols * UnitsUpTo(k)) \div UnitsUpTo(NCells)

\* the connected components of a mask: maximal runs lo..hi of set blocks
IsRun(cells, lo, hi) ==
    /\ lo <= hi
    /\ \A c \in lo..hi : c \in cells
    /\ (lo - 1) \notin cells
    /\ (hi + 1) \notin cells
Runs(cells) == { r \in Cells \X Cells : IsRun(cells, r[1], r[2]) }

RECURSIVE RunSeqFrom(_, _)
RunSeqFrom(cells, k) ==
    IF k > NCells THEN <<>>
    ELSE IF \E r \in Runs(cells) : r[1] = k
         THEN LET r == CHOOSE q \in Runs(cells) : q[1] = k
              IN  <<r>> \o RunSeqFrom(cells, r[2] + 1)
         ELSE RunSeqFrom(cells, k + 1)

\* gocv.FindContours(mask, RetrievalExternal, ChainApproxSimple): one contour
\* for each component, left to right, with its bounding rectangle and area
RunContour(mask, r) ==
    LET rect == Rect(CellX(r[1] - 1, mask.cols), 0, CellX(r[2], mask.cols), mask.rows)
    IN  Contour(rect, Dx(rect) * Dy(rect))

FindContours(mask) ==
    LET runs == RunSeqFrom(mask.cells, 1)
    IN  [i \in 1..Len(runs) |-> RunContour(mask, runs[i])]

\* the blocks a rectangle reaches into
CellsOfRect(rect, cols) ==
    { c \in Cells : maxInt(rect.x0, CellX(c - 1, cols)) < minInt(rect.x1, CellX(c, cols)) }

\* non-zero pixels of the mask inside the rectangle
RECURSIVE PixelsInRect(_, _, _)
PixelsInRect(mask, rect, k) ==
    IF k = 0 THEN 0
    ELSE PixelsInRect(mask, rect, k - 1) +
         (IF k \in mask.cells
          THEN maxInt(0, minInt(rect.x1, CellX(k, mask.cols))
                         - maxInt(rect.x0, CellX(k - 1, mask.cols))) * Dy(rect)
          ELSE 0)

maskIoU(a, b) ==
    IF MaskEmpty(a) \/ MaskEmpty(b) \/ a.rows # b.rows \/ a.cols # b.cols THEN Zero
    ELSE LET inter == BitwiseAnd(a, b)
             union == BitwiseOr(a, b)
             den == CountNonZero(union)
         IN  IF den = 0 THEN Zero ELSE Ratio(CountNonZero(inter), den)

\* largestMaskRect: the bounding rectangle of the contour of largest area
\* (the first one among equals) and whether there is one
RECURSIVE LargestContourFrom(_, _, _, _)
LargestContourFrom(contours, i, maxIdx, maxArea) ==
    IF i > Len(contours) THEN maxIdx
    ELSE IF contours[i].area > maxArea
         THEN LargestContourFrom(contours, i + 1, i, contours[i].area)
         ELSE LargestContourFrom(contours, i + 1, maxIdx, maxArea)

largestMaskRect(mask) ==
    IF MaskEmpty(mask) THEN [rect |-> Rect(0, 0, 0, 0), ok |-> FALSE]
    ELSE LET contours == FindContours(mask)
             maxIdx == LargestContourFrom(contours, 1, 0, 0)
         IN  IF Len(contours) = 0 \/ maxIdx = 0
             THEN [rect |-> Rect(0, 0, 0, 0), ok |-> FALSE]
             ELSE [rect |-> contours[maxIdx].rect, ok |-> TRUE]

\* the contour of largest area is the only one of that area
UniqueLargest(mask) ==
    LET contours == FindContours(mask)
        maxIdx == LargestContourFrom(contours, 1, 0, 0)
    IN  \A i \in 1..Len(contours) : i # maxIdx => contours[i].area < contours[maxIdx].area

\* buildPartMask: the whole frame when the segmentation finds no part, else
\* the drawn part
buildPartMask(mat) ==
    IF Empty(mat) THEN NoMask
    ELSE IF mat.seg = "part" THEN Mask(mat.cols, mat.rows, mat.part)
    ELSE Mask(mat.cols, mat.rows, Cells)

\* gocv.Erode: a mask inside its argument
ErodeChoices(mask) == { Mask(mask.cols, mask.rows, c) : c \in SUBSET mask.cells }

\* buildInteriorMask(mask), eroded being what gocv.Erode made of the mask
buildInteriorMask(mask, eroded) ==
    IF MaskEmpty(mask) THEN NoMask
    ELSE IF ROIMarginKernel < 3 \/ ROIMarginKernel % 2 = 0 THEN mask
    ELSE IF MaskEmpty(eroded) \/ CountNonZero(eroded) = 0 THEN mask
    ELSE eroded

\* postProcessDiffMask: MorphOpen gives a mask inside its argument, MorphClose
\* one around its argument that fills gaps between set blocks only
Hull(cells) ==
    { c \in Cells : (\E a \in cells : a <= c) /\ (\E b \in cells : c <= b) }
PostProcessChoices(thresh) ==
    IF MaskEmpty(thresh) THEN {NoMask}
    ELSE { Mask(thresh.cols, thresh.rows, cleaned) :
             cleaned \in UNION { { c \in SUBSET Cells : opened \subseteq c /\ c \subseteq Hull(opened) } :
                                 opened \in SUBSET thresh.cells } }

-----------------------------------------------------------------------------
(* Candidate lists of the broken-part and geometry branches.               *)

\* Reason strings are kept as the sequence of their entries.
appendReason(baseReason, extra) ==
    IF extra = <<>> THEN baseReason
    ELSE IF baseReason = <<>> THEN extra
    ELSE baseReason \o extra

combineReasons(a, b) ==
    IF a = <<>> THEN b
    ELSE IF b = <<>> THEN a
    ELSE IF a = b THEN a
    ELSE a \o <<ReasonEntry("|", 0)>> \o b

HasTag(defect, tag) == \E i \in 1..Len(defect.Reason) : defect.Reason[i].tag = tag

\* image.Rectangle.Intersect and expandRect
Intersect(r, s) ==
    LET x0 == maxInt(r.x0, s.x0)
        y0 == maxInt(r.y0, s.y0)
        x1 == minInt(r.x1, s.x1)
        y1 == minInt(r.y1, s.y1)
    IN  IF x0 >= x1 \/ y0 >= y1 THEN Rect(0, 0, 0, 0) ELSE Rect(x0, y0, x1, y1)
RectEmpty(r) == r.x0 >= r.x1 \/ r.y0 >= r.y1

expandRect(rect, margin, maxW, maxH) ==
    Intersect(Rect(rect.x0 - margin, rect.y0 - margin, rect.x1 + margin, rect.y1 + margin),
              Rect(0, 0, maxW, maxH))

overlapRatioForDefect(defect, mask) ==
    IF MaskEmpty(mask) \/ defect.Width <= 0 \/ defect.Height <= 0 THEN Zero
    ELSE LET rect == Intersect(Rect(defect.X, defect.Y, defect.X + defect.Width,
                                    defect.Y + defect.Height),
                               Rect(0, 0, mask.cols, mask.rows))
             area == Dx(rect) * Dy(rect)
         IN  IF RectEmpty(rect) \/ area <= 0 THEN Zero
             ELSE Ratio(PixelsInRect(mask, rect, NCells), area)

RECURSIVE FilterByOverlap(_, _, _)
FilterByOverlap(defects, mask, minOverlapPct) ==
    IF defects = <<>> THEN <<>>
    ELSE LET defect == Head(defects)
             overlap == overlapRatioForDefect(defect, mask)
             rest == FilterByOverlap(Tail(defects), mask, minOverlapPct)
         IN  IF GeqPct(overlap, minOverlapPct)
             THEN <<[defect EXCEPT !.Reason =
                       appendReason(@, <<ReasonEntry("broken_overlap",
                                          (overlap.num * 1000) \div overlap.den)>>)]>> \o rest
             ELSE rest

filterDefectsByMaskOverlap(defects, mask, minOverlapPct) ==
    IF Len(defects) = 0 \/ MaskEmpty(mask) \/ CountNonZero(mask) = 0 THEN defects
    ELSE FilterByOverlap(defects, mask, minOverlapPct)

shouldMergeDefects(a, b, distance) ==
    \/ boxIoU(a, b).num > 0
    \/ LET dx == maxInt(0, maxInt(a.X, b.X) - minInt(a.X + a.Width, b.X + b.Width))
           dy == maxInt(0, maxInt(a.Y, b.Y) - minInt(a.Y + a.Height, b.Y + b.Height))
       IN  dx <= distance /\ dy <= distance

unionDefectAreas_SumOfAreas(a, b) ==
    LET x1 == minInt(a.X, b.X)
        y1 == minInt(a.Y, b.Y)
        x2 == maxInt(a.X + a.Width, b.X + b.Width)
        y2 == maxInt(a.Y + a.Height, b.Y + b.Height)
    IN  DefectArea(x1, y1, x2 - x1, y2 - y1, a.Area + b.Area,
                   combineReasons(a.Reason, b.Reason))

unionDefectAreas(a, b) ==
    LET x1 == minInt(a.X, b.X)
        y1 == minInt(a.Y, b.Y)
        x2 == maxInt(a.X + a.Width, b.X + b.Width)
        y2 == maxInt(a.Y + a.Height, b.Y + b.Height)
    IN  DefectArea(x1, y1, x2 - x1, y2 - y1, (x2 - x1) * (y2 - y1),
                   combineReasons(a.Reason, b.Reason))

\* the inner loop: merge current into the first entry it should merge with,
\* else append it
RECURSIVE MergeInto(_, _, _, _)
MergeInto(merged, i, current, distance) ==
    IF i > Len(merged) THEN Append(merged, current)
    ELSE IF shouldMergeDefects(merged[i], current, distance)
         THEN [merged EXCEPT ![i] = unionDefectAreas(merged[i], current)]
         ELSE MergeInto(merged, i + 1, current, distance)

RECURSIVE MergePass(_, _, _)
MergePass(defects, merged, distance) ==
    IF defects = <<>> THEN merged
    ELSE MergePass(Tail(defects), MergeInto(merged, 1, Head(defects), distance), distance)

RECURSIVE mergeNearbyDefects(_, _)
mergeNearbyDefects(defects, distance) ==
    IF Len(defects) < 2 THEN defects
    ELSE LET dist == IF distance < 0 THEN 0 ELSE distance
             merged == MergePass(defects, <<>>, dist)
         IN  IF Len(merged) = Len(defects) THEN merged
             ELSE mergeNearbyDefects(merged, dist)

RECURSIVE MaxAreaOf(_)
MaxAreaOf(defects) ==
    IF defects = <<>> THEN 0 ELSE maxInt(Head(defects).Area, MaxAreaOf(Tail(defects)))

RECURSIVE KeepDominant(_, _, _)
KeepDominant(defects, maxArea, minRatioPct) ==
    IF defects = <<>> THEN <<>>
    ELSE LET defect == Head(defects)
             rest == KeepDominant(Tail(defects), maxArea, minRatioPct)
         IN  IF defect.Area * 100 >= minRatioPct * maxArea
             THEN <<[defect EXCEPT !.Reason =
                       appendReason(@, <<ReasonEntry("broken_dominant",
                                          (defect.Area * 1000) \div maxArea)>>)]>> \o rest
             ELSE rest

\* a keepDominantBrokenDefects that takes a ratio above 1 as it is
keepDominantBrokenDefects_NoClamp(defects, minRatioPct) ==
    IF Len(defects) < 2 THEN defects
    ELSE IF minRatioPct <= 0 THEN defects
    ELSE LET maxArea == MaxAreaOf(defects)
             kept_ == KeepDominant(defects, maxArea, minRatioPct)
         IN  IF maxArea <= 0 THEN defects
             ELSE IF Len(kept_) = 0 THEN defects
             ELSE kept_

keepDominantBrokenDefects(defects, minRatioPct) ==
    IF Len(defects) < 2 THEN defects
    ELSE IF minRatioPct <= 0 THEN defects
    ELSE LET minRatio == IF minRatioPct > 100 THEN 100 ELSE minRatioPct
             maxArea == MaxAreaOf(defects)
             kept_ == KeepDominant(defects, maxArea, minRatio)
         IN  IF maxArea <= 0 THEN defects
             ELSE IF Len(kept_) = 0 THEN defects
             ELSE kept_

defectsFromMask(mask, imageWidth, imageHeight, reasonTag) ==
    IF MaskEmpty(mask) \/ CountNonZero(mask) = 0 THEN <<>>
    ELSE extractDefectsFromContours(FindContours(mask), imageWidth, imageHeight, reasonTag)

unionRect(a, b) ==
    Rect(minInt(a.x0, b.x0), minInt(a.y0, b.y0), maxInt(a.x1, b.x1), maxInt(a.y1, b.y1))

\* unionRectForMask: the union of the bounding rectangles of the contours of
\* at least minArea
RECURSIVE UnionRectFrom(_, _, _, _, _)
UnionRectFrom(contours, i, minArea, merged, hasRect) ==
    IF i > Len(contours) THEN [rect |-> merged, ok |-> hasRect]
    ELSE LET c == contours[i]
         IN  IF c.area < minArea \/ Dx(c.rect) <= 0 \/ Dy(c.rect) <= 0
             THEN UnionRectFrom(contours, i + 1, minArea, merged, hasRect)
             ELSE IF ~hasRect
                  THEN UnionRectFrom(contours, i + 1, minArea, c.rect, TRUE)
                  ELSE UnionRectFrom(contours, i + 1, minArea, unionRect(merged, c.rect), TRUE)

unionRectForMask(mask, minArea) ==
    IF MaskEmpty(mask) THEN [rect |-> Rect(0, 0, 0, 0), ok |-> FALSE]
    ELSE LET contours == FindContours(mask)
         IN  IF Len(contours) = 0 THEN [rect |-> Rect(0, 0, 0, 0), ok |-> FALSE]
             ELSE UnionRectFrom(contours, 1, minArea, Rect(0, 0, 0, 0), FALSE)

buildGeometryMismatchDefects_PerContour(mask, imageWidth, imageHeight, reason) ==
    IF MaskEmpty(mask) \/ CountNonZero(mask) = 0 THEN <<>>
    ELSE extractDefectsFromContours(FindContours(mask), imageWidth, imageHeight,
                                    "geometry_mismatch")

buildGeometryMismatchDefects(mask, imageWidth, imageHeight, reason) ==
    IF MaskEmpty(mask) \/ CountNonZero(mask) = 0 THEN <<>>
    ELSE LET minComponentArea ==
                 (imageWidth * imageHeight * MinContourAreaRatioPpm + 999999) \div 1000000
             u == unionRectForMask(mask, minComponentArea)
         IN  IF ~u.ok \/ Dx(u.rect) <= 0 \/ Dy(u.rect) <= 0 THEN <<>>
             ELSE <<DefectArea(u.rect.x0, u.rect.y0, Dx(u.rect), Dy(u.rect),
                               Dx(u.rect) * Dy(u.rect),
                               appendReason(reason, <<ReasonEntry("geometry_mask_union", 0)>>))>>

-----------------------------------------------------------------------------
(* detectBrokenPartMask.                                                   *)

\* significantMaskComponents: the contours of at least minArea, sorted by
\* area descending (an insertion sort for these short slices), and the sum
\* of their areas
RECURSIVE InsertComponent(_, _)
InsertComponent(sorted, c) ==
    IF sorted = <<>> THEN <<c>>
    ELSE IF c.area > Head(sorted).area THEN <<c>> \o sorted
    ELSE <<Head(sorted)>> \o InsertComponent(Tail(sorted), c)

RECURSIVE SignificantFrom(_, _, _)
SignificantFrom(contours, i, minArea) ==
    IF i = 0 THEN [components |-> <<>>, total |-> 0]
    ELSE LET before == SignificantFrom(contours, i - 1, minArea)
         IN  IF contours[i].area < minArea THEN before
             ELSE [components |-> InsertComponent(before.components, contours[i]),
                   total |-> before.total + contours[i].area]

significantMaskComponents(mask, minArea) ==
    IF MaskEmpty(mask) THEN [components |-> <<>>, total |-> 0]
    ELSE LET contours == FindContours(mask)
         IN  SignificantFrom(contours, Len(contours), minArea)

hasSeparatedPart(components, minRelativeAreaPct) ==
    IF Len(components) < 2 THEN FALSE
    ELSE IF components[1].area <= 0 THEN FALSE
    ELSE components[2].area * 100 >= minRelativeAreaPct * components[1].area

\* erodeMaskForSplit(mask), eroded being what gocv.Erode made of the mask
erodeMaskForSplit(mask, eroded) ==
    IF MaskEmpty(mask) THEN NoMask
    ELSE IF MaskEmpty(eroded) \/ CountNonZero(eroded) = 0 THEN NoMask
    ELSE eroded

\* minComponentArea and minComponentArea*0.45, rounded up to whole pixels
MinComponentArea(mask) ==
    (mask.rows * mask.cols * BrokenMinComponentRatioPm + 9999) \div 10000
MinErodedComponentArea(mask) ==
    (mask.rows * mask.cols * BrokenMinComponentRatioPm * ErodedComponentPct + 999999)
        \div 1000000

\* lines 1712-1724: the components the split test looks at
FocusComponents(cMask, eroded) ==
    LET currentComponents ==
            significantMaskComponents(cMask, MinComponentArea(cMask)).components
        splitMask == erodeMaskForSplit(cMask, eroded)
        erodedComponents ==
            significantMaskComponents(splitMask, MinErodedComponentArea(cMask)).components
    IN  IF Len(currentComponents) < 2
           /\ ~MaskEmpty(splitMask) /\ CountNonZero(splitMask) > 0
           /\ Len(erodedComponents) >= 2
        THEN erodedComponents
        ELSE currentComponents

ComponentSplit(bMask, focusComponents) ==
    /\ Len(significantMaskComponents(bMask, MinComponentArea(bMask)).components) <= 1
    /\ hasSeparatedPart(focusComponents, BrokenSecondRelMinPct)

AreaLoss(bMask, cMask) ==
    LET baseArea == significantMaskComponents(bMask, MinComponentArea(bMask)).total
        currentArea == significantMaskComponents(cMask, MinComponentArea(bMask)).total
    IN  /\ baseArea > 0
        /\ currentArea < baseArea
        /\ (baseArea - currentArea) * 100 >= BrokenAreaLossRatioPct * baseArea

\* the focus rectangles drawn around every component but the first: the
\* blocks they cover whole and the blocks they reach into
FocusRects(focusComponents, cols, rows) ==
    { expandRect(focusComponents[i].rect, maxInt(1, BrokenFocusExpand), cols, rows) :
        i \in 2..Len(focusComponents) }
FocusWhole(focusComponents, cols, rows) ==
    { c \in Cells : \E r \in FocusRects(focusComponents, cols, rows) :
        r.x0 <= CellX(c - 1, cols) /\ CellX(c, cols) <= r.x1 /\ ~RectEmpty(r) }
FocusTouched(focusComponents, cols, rows) ==
    UNION { CellsOfRect(r, cols) : r \in FocusRects(focusComponents, cols, rows) }

\* what the oracles of one call may answer
FocusedChoices(cleanedStructural, focusComponents) ==
    LET whole == FocusWhole(focusComponents, cleanedStructural.cols, cleanedStructural.rows)
        touched == FocusTouched(focusComponents, cleanedStructural.cols, cleanedStructural.rows)
    IN  { Mask(cleanedStructural.cols, cleanedStructural.rows,
               (cleanedStructural.cells \cap whole) \cup p) :
            p \in SUBSET (cleanedStructural.cells \cap (touched \ whole)) }

\* detectBrokenPartMask(bMask, cMask) with the answers of gocv:
\* eroded (Erode of the current mask), cleanedStructural (postProcessDiffMask
\* of the XOR) and focusedStructural (the cleaned XOR inside the focus)
detectBrokenPartMask(bMask, cMask, eroded, cleanedStructural, focusedStructural) ==
    IF MaskEmpty(bMask) \/ MaskEmpty(cMask)
       \/ bMask.rows # cMask.rows \/ bMask.cols # cMask.cols
    THEN [mode |-> FALSE, mask |-> NoMask]
    ELSE LET focusComponents == FocusComponents(cMask, eroded)
             componentSplit == ComponentSplit(bMask, focusComponents)
             areaLoss == AreaLoss(bMask, cMask)
             structural == BitwiseXor(bMask, cMask)
         IN  IF ~componentSplit /\ ~areaLoss THEN [mode |-> FALSE, mask |-> NoMask]
             ELSE IF MaskEmpty(structural) \/ CountNonZero(structural) = 0
                  THEN [mode |-> TRUE, mask |-> structural]
             ELSE IF ~componentSplit THEN [mode |-> TRUE, mask |-> cleanedStructural]
             ELSE IF FocusTouched(focusComponents, bMask.cols, bMask.rows) = {}
                  THEN [mode |-> TRUE, mask |-> cleanedStructural]
             ELSE IF MaskEmpty(focusedStructural) \/ CountNonZero(focusedStructural) = 0
                  THEN [mode |-> TRUE, mask |-> NoMask]
             ELSE [mode |-> TRUE, mask |-> focusedStructural]

-----------------------------------------------------------------------------
(* detectGeometryMismatch.                                                 *)

\* a determineShapeFamily that looks at the circularity first
determineShapeFamily_RoundFirst(concavity, vertices, circularityPct, extentPct) ==
    IF circularityPct >= GeometryRoundMinCircularityPct THEN "round"
    ELSE IF concavity >= GeometryMinConcavity THEN "toothed"
    ELSE IF /\ vertices >= 3 /\ vertices <= 12
            /\ circularityPct >= GeometryPolygonMinCircularityPct
            /\ extentPct >= GeometryPolygonMinExtentPct
         THEN "polygon"
    ELSE "unknown"

determineShapeFamily(concavity, vertices, circularityPct, extentPct) ==
    IF concavity >= GeometryMinConcavity THEN "toothed"
    ELSE IF circularityPct >= GeometryRoundMinCircularityPct THEN "round"
    ELSE IF /\ vertices >= 3 /\ vertices <= 12
            /\ circularityPct >= GeometryPolygonMinCircularityPct
            /\ extentPct >= GeometryPolygonMinExtentPct
         THEN "polygon"
    ELSE "unknown"

\* largestContourCopy and describeContourShape: ok is FALSE when the mask has
\* no contour of at least five points
describeContourShape(ok, concavity, vertices, circularityPct, extentPct) ==
    [ok |-> ok,
     family |-> determineShapeFamily(concavity, vertices, circularityPct, extentPct),
     concavity |-> concavity, vertices |-> vertices,
     circularity |-> circularityPct, extent |-> extentPct]

\* the shapes gocv may report of a mask's largest contour
Shapes ==
    { describeContourShape(TRUE, t[1], t[2], t[3], t[4]) :
        t \in { <<8, 16, 40, 60>>, <<9, 16, 40, 60>>, <<10, 16, 40, 60>>,
                <<0, 8, 82, 78>>, <<0, 8, 92, 78>>,
                <<0, 4, 78, 100>>, <<0, 6, 70, 60>>,
                <<7, 13, 30, 40>> } }
    \cup { describeContourShape(FALSE, 0, 4, 78, 100) }
\* gocv.MatchShapes in hundredths
ShapeScores == {0, 11}

ReasonCodes == <<"tooth_count", "polygon_vertices", "round_profile", "toothed_shape",
                 "shape_family">>

\* rules in which the shape score alone tells two shapes of a family apart
GeometryRules_ScoreAlone(baseShape, currentShape, shapeScorePct) ==
    LET concavityGap == absInt(baseShape.concavity - currentShape.concavity)
        vertexGap == absInt(baseShape.vertices - currentShape.vertices)
        circularityGap == absInt(baseShape.circularity - currentShape.circularity)
        familyMismatch ==
            /\ baseShape.family # "unknown" /\ currentShape.family # "unknown"
            /\ baseShape.family # currentShape.family
        mismatchByToothed ==
            /\ baseShape.family = "toothed" /\ currentShape.family = "toothed"
            /\ concavityGap >= GeometryMinConcavityGap
        mismatchByPolygon ==
            /\ baseShape.family = "polygon" /\ currentShape.family = "polygon"
            /\ baseShape.vertices > 0 /\ currentShape.vertices > 0
            /\ baseShape.vertices <= 12 /\ currentShape.vertices <= 12
            /\ vertexGap >= GeometryPolygonVertexGap
        mismatchByRound ==
            /\ baseShape.family = "round" /\ currentShape.family = "round"
            /\ circularityGap >= GeometryRoundMaxCircularityGapPct
        mismatchByToothedShape ==
            /\ baseShape.family = currentShape.family
            /\ shapeScorePct > GeometryMatchMaxScorePct
    IN  [mismatch |-> \/ familyMismatch \/ mismatchByToothed \/ mismatchByPolygon
                      \/ mismatchByRound \/ mismatchByToothedShape,
         reasonCode |-> IF mismatchByToothed THEN 1
                        ELSE IF mismatchByPolygon THEN 2
                        ELSE IF mismatchByRound THEN 3
                        ELSE IF mismatchByToothedShape THEN 4
                        ELSE 5]

\* lines 1805-1863: the rules and the reason code (an index of ReasonCodes)
GeometryRules(baseShape, currentShape, shapeScorePct) ==
    LET concavityGap == absInt(baseShape.concavity - currentShape.concavity)
        vertexGap == absInt(baseShape.vertices - currentShape.vertices)
        circularityGap == absInt(baseShape.circularity - currentShape.circularity)
        familyMismatch ==
            /\ baseShape.family # "unknown" /\ currentShape.family # "unknown"
            /\ baseShape.family # currentShape.family
        mismatchByToothed ==
            /\ baseShape.family = "toothed" /\ currentShape.family = "toothed"
            /\ concavityGap >= GeometryMinConcavityGap
        mismatchByPolygon ==
            /\ baseShape.family = "polygon" /\ currentShape.family = "polygon"
            /\ baseShape.vertices > 0 /\ currentShape.vertices > 0
            /\ baseShape.vertices <= 12 /\ currentShape.vertices <= 12
            /\ vertexGap >= GeometryPolygonVertexGap
        mismatchByRound ==
            /\ baseShape.family = "round" /\ currentShape.family = "round"
            /\ circularityGap >= GeometryRoundMaxCircularityGapPct
        mismatchByToothedShape ==
            /\ baseShape.family = "toothed" /\ currentShape.family = "toothed"
            /\ concavityGap >= 1
            /\ shapeScorePct > GeometryMatchMaxScorePct
    IN  [mismatch |-> \/ familyMismatch \/ mismatchByToothed \/ mismatchByPolygon
                      \/ mismatchByRound \/ mismatchByToothedShape,
         reasonCode |-> IF mismatchByToothed THEN 1
                        ELSE IF mismatchByPolygon THEN 2
                        ELSE IF mismatchByRound THEN 3
                        ELSE IF mismatchByToothedShape THEN 4
                        ELSE 5]

\* buildOuterRingMask(bMask, cMask), eroded being gocv.Erode of the union
buildOuterRingMask(bMask, cMask, eroded) ==
    IF MaskEmpty(bMask) \/ MaskEmpty(cMask) THEN NoMask
    ELSE LET unionMask == BitwiseOr(bMask, cMask)
         IN  IF MaskEmpty(unionMask) \/ CountNonZero(unionMask) = 0 THEN unionMask
             ELSE IF MaskEmpty(eroded) \/ CountNonZero(eroded) = 0 THEN unionMask
             ELSE BitwiseXor(unionMask, eroded)

NoGeometry == [mode |-> FALSE, mask |-> NoMask, reason |-> <<>>]

\* what lines 1786-1863 make of the two shapes and the MatchShapes score
ShapeVerdict(baseShape, currentShape, shapeScorePct) ==
    IF baseShape.ok /\ currentShape.ok
    THEN [ok |-> TRUE, rules |-> GeometryRules(baseShape, currentShape, shapeScorePct)]
    ELSE [ok |-> FALSE, rules |-> [mismatch |-> FALSE, reasonCode |-> 5]]

\* detectGeometryMismatch(bMask, cMask) with the answers of gocv: the
\* verdict on the two shapes, the cleaned XOR and the eroded union
detectGeometryMismatch(bMask, cMask, verdict, cleanedShapeMask, eroded) ==
    IF ~EnableGeometryCheck THEN NoGeometry
    ELSE IF MaskEmpty(bMask) \/ MaskEmpty(cMask)
            \/ bMask.rows # cMask.rows \/ bMask.cols # cMask.cols
         THEN NoGeometry
    ELSE IF ~verdict.ok THEN NoGeometry
    ELSE LET rules == verdict.rules
             reason == <<ReasonEntry("geometry_mismatch", rules.reasonCode)>>
             shapeMask == BitwiseXor(bMask, cMask)
             outerRingMask == buildOuterRingMask(bMask, cMask, eroded)
             focusedShapeMask == BitwiseAnd(cleanedShapeMask, outerRingMask)
         IN  IF ~rules.mismatch THEN NoGeometry
             ELSE IF MaskEmpty(shapeMask) \/ CountNonZero(shapeMask) = 0
                  THEN [mode |-> TRUE, mask |-> shapeMask, reason |-> reason]
             ELSE IF MaskEmpty(outerRingMask) \/ CountNonZero(outerRingMask) = 0
                  THEN [mode |-> TRUE, mask |-> cleanedShapeMask, reason |-> reason]
             ELSE IF MaskEmpty(focusedShapeMask) \/ CountNonZero(focusedShapeMask) = 0
                  THEN [mode |-> TRUE, mask |-> NoMask, reason |-> reason]
             ELSE [mode |-> TRUE, mask |-> focusedShapeMask, reason |-> reason]

-----------------------------------------------------------------------------
(* alignCurrentToBase and refineAlignmentECC.                              *)

\* an image after gocv.Resize or a warp: new pixels
Resampled(mat, cols, rows) == [mat EXCEPT !.cols = cols, !.rows = rows, !.pix = -1]

AlignResult(current, mask, scoreRatio, err, refineOk) ==
    [current |-> current, mask |-> mask, score |-> scoreRatio, err |-> err,
     refineOk |-> refineOk]

\* With equal mask rectangles the scale is 1 and the offset 0: the resize
\* and the copy hand back the current image and mask pixel for pixel.
ExactCopy(bMask, cMask) ==
    \/ bMask = cMask
    \/ /\ UniqueLargest(bMask) /\ UniqueLargest(cMask)
       /\ largestMaskRect(bMask).rect = largestMaskRect(cMask).rect

\* what the resize-and-shift may produce, and what the ECC refinement may
CoarseChoices(cMat, bMask, cMask) ==
    IF ExactCopy(bMask, cMask)
    THEN { [current |-> cMat, mask |-> cMask] }
    ELSE { [current |-> Resampled(cMat, bMask.cols, bMask.rows),
            mask |-> Mask(bMask.cols, bMask.rows, c)] :
             c \in (SUBSET Cells) \ {{}} }

RefineChoices(roughCurrent, bMask) ==
    { [ok |-> FALSE, current |-> NoMat, mask |-> NoMask] }
    \cup { [ok |-> TRUE,
            current |-> Resampled(roughCurrent, bMask.cols, bMask.rows),
            mask |-> Mask(bMask.cols, bMask.rows, c)] :
             c \in (SUBSET Cells) \ {{}} }

\* refinedScore > score
RefinedIsBetter_OrEqual(refinedScore, score) ==
    refinedScore.num * score.den >= score.num * refinedScore.den

RefinedIsBetter(refinedScore, score) ==
    refinedScore.num * score.den > score.num * refinedScore.den

\* alignCurrentToBase with the answers of gocv: coarse (the resized and
\* shifted image and mask) and refined (refineAlignmentECC's result).  The
\* clipped rectangles of lines 2669-2691 always hold the centre of the base
\* rectangle, so the two overlap errors do not arise.
alignCurrentToBase(bMat, cMat, bMask, cMask, coarse, refined) ==
    LET baseRect == largestMaskRect(bMask)
        currentRect == largestMaskRect(cMask)
        score == maskIoU(bMask, coarse.mask)
        refinedScore == maskIoU(bMask, refined.mask)
    IN  IF ~baseRect.ok
        THEN AlignResult(NoMat, NoMask, Zero, "alignment failed: base mask is not detected", FALSE)
        ELSE IF ~currentRect.ok
        THEN AlignResult(NoMat, NoMask, Zero, "alignment failed: current mask is not detected", FALSE)
        ELSE IF Dx(baseRect.rect) <= 0 \/ Dy(baseRect.rect) <= 0
                \/ Dx(currentRect.rect) <= 0 \/ Dy(currentRect.rect) <= 0
        THEN AlignResult(NoMat, NoMask, Zero, "alignment failed: invalid mask rectangles", FALSE)
        ELSE IF refined.ok /\ RefinedIsBetter(refinedScore, score)
        THEN AlignResult(refined.current, refined.mask, refinedScore, "", TRUE)
        ELSE AlignResult(coarse.current, coarse.mask, score, "", refined.ok)

\* lines 1342-1348: the aligned image and mask replace the current ones
UseAligned_WhateverScore(a) == a.err = ""

UseAligned(a) == a.err = "" /\ GeqPct(a.score, MinAlignmentScorePct)

\* line 1398: the geometry branch returns
GeometryBranchTaken_IgnoringBroken(geometryMode_, brokenMode_) == geometryMode_

GeometryBranchTaken(geometryMode_, brokenMode_) == geometryMode_ /\ ~brokenMode_

-----------------------------------------------------------------------------
(* Inspect(imageData), step by step.                                       *)
BoxIdle == boxPc = "idle" /\ cands = <<>> /\ kept = <<>>

UserIDs == 1..MaxUsers

\* what a service call returned
NoOutput == <<>>
InspectionOutput(result, highlighted) == <<[Result |-> result, Highlighted |-> highlighted]>>
SvcReturn(op, userID, ref, err, out) ==
    [op |-> op, user |-> userID, ref |-> ref, err |-> err, out |-> out]

\* the services as container.New makes them, before any call
SvcEmpty ==
    /\ users = [u \in UserIDs |-> 0]
    /\ userRecs = <<>>
    /\ originals = [u \in UserIDs |-> <<>>]
    /\ svcCalls = 0
    /\ svcRet = SvcReturn("", 0, 0, "", NoOutput)

Threads == 1..MaxThreads

\* no goroutine is inside the user service
ThIdle ==
    /\ thPc = [t \in Threads |-> "idle"]
    /\ thOp = [t \in Threads |-> ""]
    /\ thUser = [t \in Threads |-> 0]
    /\ thState = [t \in Threads |-> ""]
    /\ thRet = [t \in Threads |-> 0]

\* the bot before its first update
BotIdle == botUpdates = 0 /\ botUpdate = <<>> /\ botReply = "" /\ jobs = <<>>

\* no call of mergeNearbyDefects or of a pure function is being looked at
MergeIdle ==
    /\ mergePc = "idle" /\ mergeIn = <<>> /\ mergeList = <<>> /\ mergeDistance = 0
    /\ mergeRecursed = FALSE /\ mergeOut = <<>>
FnIdle == fnPc = "idle" /\ fnIn = <<>> /\ fnOut = <<>>

SvcIdle == detector = "nil" /\ SvcEmpty /\ ThIdle /\ BotIdle /\ MergeIdle /\ FnIdle

\* the detector as constructed; its calls are not counted
RepIdle ==
    /\ detectorFields = NewGoCVDetector
    /\ callNo = 0 /\ callLog = <<>> /\ firstOut = <<>>

NoAlignment == AlignResult(NoMat, NoMask, Zero, "", FALSE)

\* the locals of InspectDiff before the call has set them
DiffLocalsUnset ==
    /\ baseMat = NoMat /\ currentMat = NoMat
    /\ baseGate = GateResult("", <<>>) /\ currentGate = GateResult("", <<>>)
    /\ baseMask = NoMask /\ currentMask = NoMask
    /\ aligned = NoAlignment
    /\ currentForDiff = NoMat /\ currentMaskForROI = NoMask
    /\ innerROIMask = NoMask
    /\ brokenMode = FALSE /\ structuralInput = NoMask
    /\ geometryMode = FALSE /\ geometryMask = NoMask /\ geometryReason = <<>>
    /\ difThresh = NoMask /\ threshInput = NoMask
    /\ ppMemo = {}
    /\ difPath = ""
    /\ liveMats = {} /\ deferred = {}
    /\ difErr = <<>> /\ difRes = NoResult

DiffIdle ==
    /\ difPc = "idle" /\ baseImage = Garbage /\ currentImage = Garbage
    /\ DiffLocalsUnset

InsIdle ==
    /\ insPc = "idle" /\ insIn = Garbage /\ insMat = NoMat
    /\ insGate = GateResult("", <<>>) /\ insErr = "" /\ insRes = NoResult

InsStart ==
    /\ insPc = "start"
    /\ insIn \in InputBytes
    /\ insMat = NoMat
    /\ insGate = GateResult("", <<>>)
    /\ insErr = ""
    /\ insRes = NoResult

InsInit == BoxIdle /\ DiffIdle /\ RepIdle /\ SvcIdle /\ InsStart

InspectDecode ==
    /\ insPc = "start"
    /\ LET dec == decodeToMat(insIn)
       IN  /\ insMat' = dec.mat
           /\ insErr' = dec.err
           /\ insPc' = IF dec.err # "" THEN "done" ELSE "decoded"
    /\ UNCHANGED <<insIn, insGate, insRes>>

InspectQualityGate ==
    /\ insPc = "decoded"
    /\ IF Empty(insMat)
       THEN /\ insErr' = "empty image"
            /\ insPc' = "done"
            /\ UNCHANGED insGate
       ELSE LET q == checkImageQuality(insMat, MaxGlareRatioPct)
            IN  /\ insGate' = q
                /\ insErr' = q.reason
                /\ insPc' = IF q.reason # GatePassed THEN "done" ELSE "gated"
    /\ UNCHANGED <<insIn, insMat, insRes>>

\* the resize to MaxSide: int(float64(cols) * scale), scale = MaxSide / longer side
ResizedToMaxSide(mat) ==
    IF mat.cols > MaxSide \/ mat.rows > MaxSide
    THEN [mat EXCEPT !.cols = (mat.cols * MaxSide) \div maxInt(mat.cols, mat.rows),
                     !.rows = (mat.rows * MaxSide) \div maxInt(mat.cols, mat.rows)]
    ELSE mat

\* resize, segmentation, masked edges, contours, extraction and the result
InspectAnalyse ==
    /\ insPc = "gated"
    /\ LET mat == ResizedToMaxSide(insMat)
       IN  \E contours \in ContourLists(mat.cols, mat.rows) :
             /\ insMat' = mat
             /\ insRes' = InspectionResult(mat.cols, mat.rows,
                              extractDefectsFromContours(contours, mat.cols, mat.rows,
                                                         "edge_contour"))
    /\ insPc' = "done"
    /\ UNCHANGED <<insIn, insGate, insErr>>

InsNext ==
    \/ InspectDecode /\ UNCHANGED otherThanIns
    \/ InspectQualityGate /\ UNCHANGED otherThanIns
    \/ InspectAnalyse /\ UNCHANGED otherThanIns

SpecInspect == InsInit /\ [][InsNext]_vars

-----------------------------------------------------------------------------
(* InspectDiff(baseImage, currentImage), step by step.                     *)

\* The images InspectDiff is called with: well-lit parts of several
\* outlines, two frame widths and two frame heights, and images the quality
\* gate rejects.
GoodImage(cols, seg, part, pix) ==
    Img(cols, MinImageSide, seg, IF part = Cells THEN 100 ELSE 50,
        MinSharpnessEdgeRatioPm, 0, 0, MaxGlareRatioPct + 1, part, pix)
DiffImages ==
    { GoodImage(MinImageSide, "none", Cells, 0),
      GoodImage(MinImageSide, "part", {1, 2}, 0),
      GoodImage(MinImageSide, "part", {1, 2}, 1),
      GoodImage(MinImageSide + 100, "part", {1, 2}, 0),
      GoodImage(MinImageSide, "part", {1, 3}, 0),
      GoodImage(MinImageSide, "part", {3}, 0),
      Img(MinImageSide, MinImageSide + 100, "part", 50, MinSharpnessEdgeRatioPm, 0, 0,
          MaxGlareRatioPct + 1, {1, 3}, 0),
      Img(MinImageSide - 1, MinImageSide, "none", 100, 0, 0, 100, 0, Cells, 0),
      Img(MinImageSide, MinImageSide, "part", 50, MinSharpnessEdgeRatioPm, 0, 0,
          DiffMaxGlareRatioPct + 1, {1, 2}, 0) }
DiffInputs == {Garbage} \cup { Bytes(TRUE, i) : i \in DiffImages }

QualityError(label, reason) == <<"quality gate failed for", label, reason>>

DiffStart ==
    /\ difPc = "start"
    /\ baseImage \in DiffInputs
    /\ currentImage \in DiffInputs
    /\ DiffLocalsUnset

\* lines 1295-1299
DiffDecodeBase ==
    /\ difPc = "start"
    /\ LET dec == decodeToMat(baseImage)
       IN  IF dec.err # ""
           THEN /\ difErr' = <<dec.err>>
                /\ difPath' = "decode"
                /\ difPc' = "done"
                \* the gocv.NewMat() decodeToMat hands back with the error
                /\ liveMats' = (liveMats \cup {"decodeToMat(baseImage)"}) \ deferred
                /\ UNCHANGED <<baseMat, deferred>>
           ELSE /\ baseMat' = dec.mat
                /\ liveMats' = liveMats \cup {"baseMat"}
                /\ deferred' = deferred \cup {"baseMat"}
                /\ difPc' = "baseDecoded"
                /\ UNCHANGED <<difErr, difPath>>
    /\ UNCHANGED <<baseImage, currentImage, currentMat, baseGate, currentGate, baseMask,
                   currentMask, aligned, currentForDiff, currentMaskForROI, innerROIMask,
                   brokenMode, structuralInput, geometryMode, geometryMask, geometryReason,
                   difThresh, threshInput, ppMemo, difRes>>

\* lines 1301-1305
DiffDecodeCurrent ==
    /\ difPc = "baseDecoded"
    /\ LET dec == decodeToMat(currentImage)
       IN  IF dec.err # ""
           THEN /\ difErr' = <<dec.err>>
                /\ difPath' = "decode"
                /\ difPc' = "done"
                /\ liveMats' = (liveMats \cup {"decodeToMat(currentImage)"}) \ deferred
                /\ UNCHANGED <<currentMat, deferred>>
           ELSE /\ currentMat' = dec.mat
                /\ liveMats' = liveMats \cup {"currentMat"}
                /\ deferred' = deferred \cup {"currentMat"}
                /\ difPc' = "decoded"
                /\ UNCHANGED <<difErr, difPath>>
    /\ UNCHANGED <<baseImage, currentImage, baseMat, baseGate, currentGate, baseMask,
                   currentMask, aligned, currentForDiff, currentMaskForROI, innerROIMask,
                   brokenMode, structuralInput, geometryMode, geometryMask, geometryReason,
                   difThresh, threshInput, ppMemo, difRes>>

\* lines 1307-1315
DiffQualityGate ==
    /\ difPc = "decoded"
    /\ LET qb == checkImageQuality(baseMat, DiffMaxGlareRatioPct)
           qc == checkImageQuality(currentMat, DiffMaxGlareRatioPct)
       IN  IF Empty(baseMat) \/ Empty(currentMat)
           THEN /\ difErr' = <<"empty image">>
                /\ UNCHANGED <<baseGate, currentGate>>
           ELSE IF qb.reason # GatePassed
           THEN /\ baseGate' = qb
                /\ difErr' = QualityError("base image", qb.reason)
                /\ UNCHANGED currentGate
           ELSE /\ baseGate' = qb
                /\ currentGate' = qc
                /\ difErr' = IF qc.reason # GatePassed
                             THEN QualityError("current image", qc.reason) ELSE <<>>
    /\ IF difErr' # <<>>
       THEN /\ difPc' = "done"
            /\ difPath' = "gate"
            /\ liveMats' = liveMats \ deferred
       ELSE /\ difPc' = "gated"
            /\ UNCHANGED <<difPath, liveMats>>
    /\ UNCHANGED <<baseImage, currentImage, baseMat, currentMat, baseMask, currentMask,
                   aligned, currentForDiff, currentMaskForROI, innerROIMask, brokenMode,
                   structuralInput, geometryMode, geometryMask, geometryReason,
                   difThresh, threshInput, ppMemo, deferred, difRes>>

targetW == minInt(baseMat.cols, currentMat.cols)
targetH == minInt(baseMat.rows, currentMat.rows)

\* lines 1317-1336: both images at the common size, and their part masks.
\* A resized image keeps its outline, block for block.
DiffPrepare ==
    /\ difPc = "gated"
    /\ LET w == minInt(baseMat.cols, currentMat.cols)
           h == minInt(baseMat.rows, currentMat.rows)
           b == IF baseMat.cols # w \/ baseMat.rows # h
                THEN Resampled(baseMat, w, h) ELSE baseMat
           c == IF currentMat.cols # w \/ currentMat.rows # h
                THEN Resampled(currentMat, w, h) ELSE currentMat
       IN  /\ baseMat' = b
           /\ currentMat' = c
           /\ baseMask' = buildPartMask(b)
           /\ currentMask' = buildPartMask(c)
    /\ liveMats' = liveMats \cup {"baseMask", "currentMask"}
    /\ deferred' = deferred \cup {"baseMask", "currentMask"}
    /\ difPc' = "masked"
    /\ UNCHANGED <<baseImage, currentImage, baseGate, currentGate, aligned, currentForDiff,
                   currentMaskForROI, innerROIMask, brokenMode, structuralInput,
                   geometryMode, geometryMask, geometryReason, difThresh, threshInput, ppMemo,
                   difPath, difErr, difRes>>

\* lines 1338-1350
DiffAlign ==
    /\ difPc = "masked"
    /\ IF EnableRegistration
       THEN \E coarse \in CoarseChoices(currentMat, baseMask, currentMask) :
            \E refined \in RefineChoices(coarse.current, baseMask) :
              LET a == alignCurrentToBase(baseMat, currentMat, baseMask, currentMask,
                                          coarse, refined)
              IN  /\ aligned' = a
                  /\ currentForDiff' = IF UseAligned(a) THEN a.current ELSE currentMat
                  /\ currentMaskForROI' = IF UseAligned(a) THEN a.mask ELSE currentMask
                  /\ IF a.err = ""
                     THEN /\ liveMats' = liveMats \cup {"alignedCurrent", "alignedMask"}
                                \cup (IF a.refineOk THEN {}
                                      ELSE {"refinedCurrent", "refinedMask"})
                          /\ deferred' = deferred \cup {"alignedCurrent", "alignedMask"}
                     ELSE /\ liveMats' = liveMats \cup {"alignedCurrent", "alignedMask"}
                          /\ UNCHANGED deferred
       ELSE /\ currentForDiff' = currentMat
            /\ currentMaskForROI' = currentMask
            /\ UNCHANGED <<aligned, liveMats, deferred>>
    /\ difPc' = "aligned"
    /\ UNCHANGED <<baseImage, currentImage, baseMat, currentMat, baseGate, currentGate,
                   baseMask, currentMask, innerROIMask, brokenMode, structuralInput,
                   geometryMode, geometryMask, geometryReason, difThresh, threshInput, ppMemo,
                   difPath, difErr, difRes>>

\* lines 1352-1385: grey images, the ROI and the thresholded difference.  The
\* content of the difference mask is read first at line 1418.
DiffROI ==
    /\ difPc = "aligned"
    /\ LET roiMask == BitwiseAnd(baseMask, currentMaskForROI)
       IN  \E eroded \in ErodeChoices(roiMask) :
             innerROIMask' = buildInteriorMask(roiMask, eroded)
    /\ liveMats' = liveMats \cup {"baseGray", "currentGray", "roiMask", "innerROIMask",
                                  "diff", "blur", "thresh", "cleanedThresh"}
    /\ deferred' = deferred \cup {"baseGray", "currentGray", "roiMask", "innerROIMask",
                                  "diff", "blur", "thresh", "cleanedThresh"}
    /\ difPc' = "roi"
    /\ UNCHANGED <<baseImage, currentImage, baseMat, currentMat, baseGate, currentGate,
                   baseMask, currentMask, aligned, currentForDiff, currentMaskForROI,
                   brokenMode, structuralInput, geometryMode, geometryMask,
                   geometryReason, difThresh, threshInput, ppMemo, difPath, difErr, difRes>>

\* postProcessDiffMask is a function: the same mask gives the same result
PostProcessResults(thresh, memo) ==
    IF \E m \in memo : m.src = thresh
    THEN { m.dst : m \in { n \in memo : n.src = thresh } }
    ELSE PostProcessChoices(thresh)

\* lines 1387-1395
DiffStructural ==
    /\ difPc = "roi"
    /\ LET structural == BitwiseXor(baseMask, currentMaskForROI)
       IN  \E eroded \in ErodeChoices(currentMaskForROI) :
           \E cleaned \in PostProcessChoices(structural) :
           \E focused \in FocusedChoices(cleaned, FocusComponents(currentMaskForROI, eroded)) :
             LET b == detectBrokenPartMask(baseMask, currentMaskForROI, eroded, cleaned, focused)
             IN  /\ brokenMode' = b.mode
                 /\ structuralInput' =
                        IF b.mode /\ ~MaskEmpty(innerROIMask) /\ ~MaskEmpty(b.mask)
                        THEN BitwiseAnd(b.mask, innerROIMask)
                        ELSE b.mask
                 /\ ppMemo' = IF b.mode /\ CountNonZero(structural) > 0
                              THEN {[src |-> structural, dst |-> cleaned]}
                              ELSE {}
    /\ liveMats' = liveMats \cup {"structuralMask", "maskedStructural"}
    /\ deferred' = deferred \cup {"structuralMask", "maskedStructural"}
    /\ difPc' = "structural"
    /\ UNCHANGED <<baseImage, currentImage, baseMat, currentMat, baseGate, currentGate,
                   baseMask, currentMask, aligned, currentForDiff, currentMaskForROI,
                   innerROIMask, geometryMode, geometryMask, geometryReason, difThresh,
                   threshInput, difPath, difErr, difRes>>

\* the pairs of shapes (and MatchShapes score) gocv may report of two masks;
\* of one and the same mask it reports one shape and the score 0
ShapeCases(bMask, cMask) ==
    IF bMask = cMask
    THEN { <<sh, sh, 0>> : sh \in Shapes }
    ELSE Shapes \X Shapes \X ShapeScores
ShapeVerdicts(bMask, cMask) ==
    { ShapeVerdict(sc[1], sc[2], sc[3]) : sc \in ShapeCases(bMask, cMask) }

\* lines 1396-1417
DiffGeometry ==
    /\ difPc = "structural"
    /\ \E verdict \in ShapeVerdicts(baseMask, currentMaskForROI) :
         LET structural == BitwiseXor(baseMask, currentMaskForROI)
             calls == /\ EnableGeometryCheck /\ verdict.ok /\ verdict.rules.mismatch
                      /\ CountNonZero(structural) > 0
         IN  \E cleaned \in (IF calls THEN PostProcessResults(structural, ppMemo)
                             ELSE {NoMask}) :
             \E eroded \in (IF calls
                            THEN ErodeChoices(BitwiseOr(baseMask, currentMaskForROI))
                            ELSE {NoMask}) :
               LET g == detectGeometryMismatch(baseMask, currentMaskForROI, verdict,
                                               cleaned, eroded)
                   masked == BitwiseAnd(g.mask, innerROIMask)
                   geometryInput ==
                       IF /\ ~MaskEmpty(innerROIMask) /\ ~MaskEmpty(g.mask)
                          /\ ~MaskEmpty(masked) /\ CountNonZero(masked) > 0
                       THEN masked ELSE g.mask
                   defects == buildGeometryMismatchDefects(geometryInput, targetW, targetH,
                                                           g.reason)
               IN  /\ geometryMode' = g.mode
                   /\ geometryMask' = g.mask
                   /\ geometryReason' = g.reason
                   /\ ppMemo' = IF calls
                                THEN ppMemo \cup {[src |-> structural, dst |-> cleaned]}
                                ELSE ppMemo
                   /\ IF GeometryBranchTaken(g.mode, brokenMode)
                      THEN /\ difRes' = InspectionResult(targetW, targetH, defects)
                           /\ difPath' = "geometry"
                           /\ difPc' = "done"
                           /\ liveMats' = (liveMats \cup {"geometryMask", "maskedGeometry"})
                                             \ (deferred \cup {"geometryMask", "maskedGeometry"})
                           /\ deferred' = deferred \cup {"geometryMask", "maskedGeometry"}
                      ELSE /\ difPc' = "geometry"
                           /\ liveMats' = liveMats \cup {"geometryMask"}
                           /\ deferred' = deferred \cup {"geometryMask"}
                           /\ UNCHANGED <<difRes, difPath>>
    /\ UNCHANGED <<baseImage, currentImage, baseMat, currentMat, baseGate, currentGate,
                   baseMask, currentMask, aligned, currentForDiff, currentMaskForROI,
                   innerROIMask, brokenMode, structuralInput, difThresh, threshInput, difErr>>

\* lines 1435-1456: the broken-part filters and the structural-mask fallback
BrokenFiltered(defects) ==
    keepDominantBrokenDefects(
        mergeNearbyDefects(
            filterDefectsByMaskOverlap(defects, structuralInput, BrokenMinOverlapRatioPct),
            BrokenMergeDistance),
        BrokenDominantMinRatioPct)

BrokenFallback ==
    keepDominantBrokenDefects(
        mergeNearbyDefects(
            defectsFromMask(structuralInput, targetW, targetH, "broken_structural_mask"),
            BrokenMergeDistance),
        BrokenDominantMinRatioPct)

\* the thresholded difference: nothing for pixel-identical images
ThreshChoices ==
    IF baseMat = currentForDiff THEN { Mask(targetW, targetH, {}) }
    ELSE { Mask(targetW, targetH, c) : c \in SUBSET Cells }

\* lines 1418-1464
DiffExtract ==
    /\ difPc = "geometry"
    /\ \E thresh \in ThreshChoices :
       \E cleanedThresh \in PostProcessResults(thresh, ppMemo) :
         LET input == IF ~MaskEmpty(innerROIMask)
                      THEN BitwiseAnd(cleanedThresh, innerROIMask) ELSE cleanedThresh
             defects == extractDefectsFromContours(FindContours(input), targetW, targetH,
                                                   "diff_contour")
             filtered == BrokenFiltered(defects)
         IN  /\ difThresh' = thresh
             /\ threshInput' = input
             /\ IF ~brokenMode
                THEN /\ difRes' = InspectionResult(targetW, targetH, defects)
                     /\ difPath' = "diff"
                ELSE IF Len(filtered) = 0
                THEN /\ difRes' = InspectionResult(targetW, targetH, BrokenFallback)
                     /\ difPath' = "broken_fallback"
                ELSE /\ difRes' = InspectionResult(targetW, targetH, filtered)
                     /\ difPath' = "broken"
    /\ liveMats' = (liveMats \cup {"maskedThresh", "contours"})
                      \ (deferred \cup {"maskedThresh", "contours"})
    /\ deferred' = deferred \cup {"maskedThresh", "contours"}
    /\ difPc' = "done"
    /\ UNCHANGED <<baseImage, currentImage, baseMat, currentMat, baseGate, currentGate,
                   baseMask, currentMask, aligned, currentForDiff, currentMaskForROI,
                   innerROIMask, brokenMode, structuralInput, geometryMode, geometryMask,
                   geometryReason, ppMemo, difErr>>

DiffNext ==
    \/ DiffDecodeBase /\ UNCHANGED otherThanDiff
    \/ DiffDecodeCurrent /\ UNCHANGED otherThanDiff
    \/ DiffQualityGate /\ UNCHANGED otherThanDiff
    \/ DiffPrepare /\ UNCHANGED otherThanDiff
    \/ DiffAlign /\ UNCHANGED otherThanDiff
    \/ DiffROI /\ UNCHANGED otherThanDiff
    \/ DiffStructural /\ UNCHANGED otherThanDiff
    \/ DiffGeometry /\ UNCHANGED otherThanDiff
    \/ DiffExtract /\ UNCHANGED otherThanDiff

\* the detector: one call of Inspect or of InspectDiff
Init ==
    /\ BoxIdle
    /\ RepIdle
    /\ SvcIdle
    /\ \/ InsStart /\ DiffIdle
       \/ InsIdle /\ DiffStart

Next == InsNext \/ DiffNext

Spec == Init /\ [][Next]_vars

\* one call of InspectDiff
DiffInit == BoxIdle /\ InsIdle /\ RepIdle /\ SvcIdle /\ DiffStart

SpecInspectDiff == DiffInit /\ [][DiffNext]_vars

-----------------------------------------------------------------------------
(* InspectDiff called twice on one detector with the same two byte slices. *)
(* gocv's operations are functions of their arguments: in the second call  *)
(* each of them answers what it answered in the first.                     *)

\* what the steps of InspectDiff hold of gocv's answers
GocvAnswers ==
    <<aligned, innerROIMask, brokenMode, structuralInput, ppMemo, geometryMode,
      geometryMask, geometryReason, threshInput, difThresh>>

RepeatImages ==
    { GoodImage(MinImageSide, "part", {1, 3}, 0),
      GoodImage(MinImageSide, "part", {1, 3}, 1),
      GoodImage(MinImageSide, "part", {1, 2}, 0) }
RepeatInputs == {Garbage} \cup { Bytes(TRUE, i) : i \in RepeatImages }

\* the original of the repeated call: one outline, against a current photo
\* that is the same photo, the same outline in other pixels, or another
\* outline
RepeatBases == {Garbage, Bytes(TRUE, GoodImage(MinImageSide, "part", {1, 3}, 0))}

RepeatInit ==
    /\ BoxIdle /\ InsIdle /\ SvcIdle
    /\ detectorFields = NewGoCVDetector
    /\ callNo = 1 /\ callLog = <<>> /\ firstOut = <<>>
    /\ difPc = "start"
    /\ baseImage \in RepeatBases
    /\ currentImage \in RepeatInputs
    /\ DiffLocalsUnset

\* one step of a call: in the second call gocv answers what it answered at
\* this step of the first call
SameAnswers ==
    IF callNo = 2
    THEN /\ callLog # <<>>
         /\ aligned' = Head(callLog)[1]
         /\ innerROIMask' = Head(callLog)[2]
         /\ brokenMode' = Head(callLog)[3]
         /\ structuralInput' = Head(callLog)[4]
         /\ ppMemo' = Head(callLog)[5]
         /\ geometryMode' = Head(callLog)[6]
         /\ geometryMask' = Head(callLog)[7]
         /\ geometryReason' = Head(callLog)[8]
         /\ threshInput' = Head(callLog)[9]
         /\ difThresh' = Head(callLog)[10]
    ELSE TRUE

\* the first call's answers are kept for the second; no method assigns a
\* field of d
AnswersKept ==
    /\ callLog' = IF callNo = 1 THEN Append(callLog, GocvAnswers') ELSE Tail(callLog)
    /\ UNCHANGED <<detectorFields, callNo, firstOut, boxVars, insVars, svcVars, botVars,
                   mrgVars, fnVars>>

\* the first call has returned; the caller calls again with the same arguments
SecondCall ==
    /\ callNo = 1
    /\ difPc = "done"
    /\ firstOut' = <<[err |-> difErr, res |-> difRes]>>
    /\ callNo' = 2
    /\ difPc' = "start"
    /\ baseMat' = NoMat /\ currentMat' = NoMat
    /\ baseGate' = GateResult("", <<>>) /\ currentGate' = GateResult("", <<>>)
    /\ baseMask' = NoMask /\ currentMask' = NoMask
    /\ aligned' = NoAlignment
    /\ currentForDiff' = NoMat /\ currentMaskForROI' = NoMask
    /\ innerROIMask' = NoMask
    /\ brokenMode' = FALSE /\ structuralInput' = NoMask
    /\ geometryMode' = FALSE /\ geometryMask' = NoMask /\ geometryReason' = <<>>
    /\ difThresh' = NoMask /\ threshInput' = NoMask
    /\ ppMemo' = {}
    /\ difPath' = ""
    /\ liveMats' = {} /\ deferred' = {}
    /\ difErr' = <<>> /\ difRes' = NoResult
    /\ UNCHANGED <<baseImage, currentImage, detectorFields, callLog, boxVars, insVars,
                   svcVars, botVars, mrgVars, fnVars>>

RepeatNext ==
    \/ SameAnswers /\ DiffDecodeBase /\ AnswersKept
    \/ SameAnswers /\ DiffDecodeCurrent /\ AnswersKept
    \/ SameAnswers /\ DiffQualityGate /\ AnswersKept
    \/ SameAnswers /\ DiffPrepare /\ AnswersKept
    \/ SameAnswers /\ DiffAlign /\ AnswersKept
    \/ SameAnswers /\ DiffROI /\ AnswersKept
    \/ SameAnswers /\ DiffStructural /\ AnswersKept
    \/ SameAnswers /\ DiffGeometry /\ AnswersKept
    \/ SameAnswers /\ DiffExtract /\ AnswersKept
    \/ SecondCall

SpecRepeat == RepeatInit /\ [][RepeatNext]_vars

-----------------------------------------------------------------------------
(* Claims about the returned dimensions.                                   *)

\* a side of the frame after the downscale to MaxSide
ScaledSide(side, longer) == (side * MaxSide) \div longer

\* C12: Inspect returns the decoded image's width and height when both are
\* at most MaxSide, and otherwise both scaled by MaxSide / (longer side), the
\* longer side becoming at most MaxSide; InspectDiff returns the smaller of
\* the two decoded widths and the smaller of the two decoded heights on each
\* return with a result.
C12_ReturnedDimensions ==
    /\ (insPc = "done" /\ insErr = "") =>
          LET c == insIn.img.cols
              r == insIn.img.rows
              longer == IF c > r THEN c ELSE r
          IN  /\ insRes.ImageWidth <= MaxSide /\ insRes.ImageHeight <= MaxSide
              /\ IF c <= MaxSide /\ r <= MaxSide
                 THEN insRes.ImageWidth = c /\ insRes.ImageHeight = r
                 ELSE /\ insRes.ImageWidth = ScaledSide(c, longer)
                      /\ insRes.ImageHeight = ScaledSide(r, longer)
    /\ (difPc = "done" /\ difErr = <<>>) =>
          LET bw == baseImage.img.cols
              cw == currentImage.img.cols
              bh == baseImage.img.rows
              ch == currentImage.img.rows
          IN  /\ difRes.ImageWidth = (IF bw < cw THEN bw ELSE cw)
              /\ difRes.ImageHeight = (IF bh < ch THEN bh ELSE ch)

\* C12's case: the geometry branch returns for a base image wider and a
\* current image taller than the common frame
C12_Witness ==
    /\ difPc = "done" /\ difErr = <<>>
    /\ difPath = "geometry"
    /\ baseImage.img.cols > difRes.ImageWidth
    /\ currentImage.img.rows > difRes.ImageHeight

\* Inspect's downscale has happened: a side above MaxSide went in
C12_WitnessInspect ==
    /\ insPc = "done" /\ insErr = ""
    /\ insIn.img.rows > MaxSide
    /\ insRes.ImageHeight = MaxSide
    /\ insRes.ImageWidth < insIn.img.cols

\* the cleaned XOR of the two part masks InspectDiff hands to the geometry
\* detector: the XOR itself when it has no pixel (it is returned before
\* postProcessDiffMask), the mask postProcessDiffMask made of it otherwise
XorEvidence ==
    LET shapeMask == BitwiseXor(baseMask, currentMaskForROI)
    IN  IF CountNonZero(shapeMask) = 0 THEN {shapeMask}
        ELSE { m.dst : m \in { n \in ppMemo : n.src = shapeMask } }

\* C17: when the geometry detector has triggered and the mask it returned
\* has no pixel inside the outline ring, that mask is the unrestricted
\* cleaned XOR of the two part masks and not an empty mask.
C17_EmptyFocusReturnsXorEvidence ==
    (difPc \in {"geometry", "done"} /\ geometryMode /\ CountNonZero(geometryMask) = 0)
        => /\ ~MaskEmpty(geometryMask)
           /\ geometryMask \in XorEvidence

\* the detector has triggered on masks whose cleaned XOR has pixels, and
\* has returned an empty mask
C17_EmptyMaskReturned ==
    /\ difPc \in {"geometry", "done"} /\ geometryMode
    /\ MaskEmpty(geometryMask)
    /\ \E m \in XorEvidence : CountNonZero(m) > 0

\* InspectDiff has returned from its differencing stage
DiffStageDone ==
    difPc = "done" /\ difPath \in {"diff", "broken", "broken_fallback"}

\* C18: in the differencing stage the thresholded difference is restricted
\* to the ROI before the open and the close are applied: the mask the
\* contours are taken from is what postProcessDiffMask makes of the
\* restricted threshold mask.
C18_RestrictedBeforeOpenClose ==
    (DiffStageDone /\ ~MaskEmpty(innerROIMask))
        => threshInput \in PostProcessChoices(BitwiseAnd(difThresh, innerROIMask))

\* the contours are taken from pixels that the close has made of threshold
\* pixels outside the ROI: the restricted threshold mask has no pixel
C18_CleanedOutsideThenRestricted ==
    /\ DiffStageDone /\ ~MaskEmpty(innerROIMask)
    /\ CountNonZero(BitwiseAnd(difThresh, innerROIMask)) = 0
    /\ CountNonZero(threshInput) > 0
    /\ \E cleaned \in PostProcessChoices(difThresh) :
         threshInput = BitwiseAnd(cleaned, innerROIMask)

\* InspectDiff has built its ROI mask
ROIBuilt ==
    \/ difPc \in {"roi", "structural", "geometry"}
    \/ difPc = "done" /\ difPath \in {"geometry", "diff", "broken", "broken_fallback"}

\* C19: the ROI mask InspectDiff applies to the difference is never empty:
\* the interior mask of the intersection of the base mask and the current
\* mask has at least one set pixel.
C19_ROIMaskHasAPixel ==
    ROIBuilt => (~MaskEmpty(innerROIMask) /\ CountNonZero(innerROIMask) > 0)

\* the two part masks share no pixel, the ROI mask has none, and the
\* difference restricted to it has none although the threshold mask has
C19_DisjointMasksEmptyROI ==
    /\ DiffStageDone
    /\ CountNonZero(baseMask) > 0 /\ CountNonZero(currentMaskForROI) > 0
    /\ ~MaskEmpty(innerROIMask) /\ CountNonZero(innerROIMask) = 0
    /\ CountNonZero(difThresh) > 0 /\ CountNonZero(threshInput) = 0

\* InspectDiff has called the structural detector
StructuralCalled ==
    \/ difPc \in {"structural", "geometry"}
    \/ difPc = "done" /\ difPath \in {"geometry", "diff", "broken", "broken_fallback"}

\* (a) of C20: one significant component in the base mask, and in the
\* current mask itself two or more, the second large enough
SplitOfTheMaskItself(bMask, cMask) ==
    /\ Len(significantMaskComponents(bMask, MinComponentArea(bMask)).components) = 1
    /\ hasSeparatedPart(significantMaskComponents(cMask, MinComponentArea(cMask)).components,
                        BrokenSecondRelMinPct)

\* C20: the structural detector reports triggered if and only if (a) the
\* base mask has a single significant component while the current mask
\* itself has at least two, the second's area being at least
\* BrokenSecondRelMin of the first's, or (b) the current mask's significant
\* area is smaller than the base mask's by at least BrokenAreaLossRatio.
C20_TriggeredIffSplitOrAreaLoss ==
    StructuralCalled =>
        (brokenMode <=> \/ SplitOfTheMaskItself(baseMask, currentMaskForROI)
                        \/ AreaLoss(baseMask, currentMaskForROI))

\* the detector has triggered for two identical masks
C20_IdenticalMasksTrigger ==
    /\ StructuralCalled
    /\ baseMask = currentMaskForROI
    /\ brokenMode

\* the diff-contour candidates of the returned call, and those of them that
\* InspectDiff hands to mergeNearbyDefects in broken mode (line 1437)
DiffCandidates ==
    extractDefectsFromContours(FindContours(threshInput), targetW, targetH, "diff_contour")
PassedOnToMerging ==
    filterDefectsByMaskOverlap(DiffCandidates, structuralInput, BrokenMinOverlapRatioPct)

\* C21: when the structural detector has triggered, every diff-contour
\* candidate passed on to merging overlaps the structural mask by at least
\* BrokenMinOverlapRatio of its box, whatever the structural mask holds.
C21_PassedOnCandidatesOverlap ==
    (difPc = "done" /\ difPath \in {"broken", "broken_fallback"}) =>
        \A i \in 1..Len(PassedOnToMerging) :
            GeqPct(overlapRatioForDefect(PassedOnToMerging[i], structuralInput),
                   BrokenMinOverlapRatioPct)

\* broken mode with a structural mask without pixels: a candidate that
\* overlaps nothing is returned as a defect
C21_UnfilteredCandidateReturned ==
    /\ difPc = "done" /\ difPath = "broken"
    /\ CountNonZero(structuralInput) = 0
    /\ Len(DiffCandidates) > 0
    /\ PassedOnToMerging = DiffCandidates
    /\ difRes.HasDefects

-----------------------------------------------------------------------------
(* Claims about the quality gate.                                          *)

\* C6: Inspect on a decodable all-black image of at least the minimum side
\* length fails with the quality gate's underexposure reason.
C6_AllBlackCitesUnderexposure ==
    (/\ insPc = "done"
     /\ insIn.decodable
     /\ AllBlack(insIn.img)
     /\ insIn.img.cols >= MinImageSide
     /\ insIn.img.rows >= MinImageSide)
    => insErr = "underexposed image"

BelowMinSide(img) == img.cols < MinImageSide \/ img.rows < MinImageSide
DiffGateRan == difPc \in {"gated", "masked", "aligned", "roi", "structural", "geometry", "done"}

\* C7: a decodable image with a side below MinImageSide fails the quality
\* gate with the reason "image is too small", whatever its content and
\* before any metric is evaluated: in Inspect, for the base image of
\* InspectDiff, and for its current image once the base image has passed.
C7_TooSmallAlwaysSizeReason ==
    /\ (/\ insPc \in {"gated", "done"}
        /\ insIn.decodable
        /\ BelowMinSide(insIn.img))
       => /\ insPc = "done"
          /\ insErr = "image is too small"
          /\ insGate = GateResult("image is too small", <<>>)
          /\ insRes = NoResult
    /\ (/\ DiffGateRan
        /\ baseImage.decodable /\ currentImage.decodable
        /\ BelowMinSide(baseImage.img))
       => /\ difPc = "done"
          /\ difErr = QualityError("base image", "image is too small")
          /\ baseGate = GateResult("image is too small", <<>>)
          /\ difRes = NoResult
    /\ (/\ DiffGateRan
        /\ baseImage.decodable /\ currentImage.decodable
        /\ baseGate.reason = GatePassed
        /\ BelowMinSide(currentImage.img))
       => /\ difPc = "done"
          /\ difErr = QualityError("current image", "image is too small")
          /\ currentGate = GateResult("image is too small", <<>>)
          /\ difRes = NoResult

\* C7's case: the current image of InspectDiff has one side too small, the
\* other not, and a content that would fail other checks too (no edges,
\* every pixel dark), after a base image that passed
C7_Witness ==
    /\ difPc = "done"
    /\ baseGate.reason = GatePassed /\ baseGate.metrics # <<>>
    /\ currentImage.decodable
    /\ currentImage.img.cols < MinImageSide
    /\ currentImage.img.rows >= MinImageSide
    /\ currentImage.img.edgePm = 0
    /\ currentImage.img.underPct = 100
    /\ difErr = QualityError("current image", "image is too small")

-----------------------------------------------------------------------------
(* Claims about the branches of InspectDiff, checked under SpecInspectDiff. *)
DiffReturned == difPc = "done" /\ difErr = <<>>
ResultDefects == { difRes.Defects[i] : i \in 1..Len(difRes.Defects) }

\* C1: whenever the structural (broken-part) detector triggers, the geometry
\* early return is not taken and no returned defect carries a
\* geometry_mismatch reason, also when the geometry detector triggers too.
C1_StructuralPrecedesGeometry ==
    (DiffReturned /\ brokenMode)
    => /\ difPath \in {"broken", "broken_fallback"}
       /\ \A d \in ResultDefects : ~HasTag(d, "geometry_mismatch")
       /\ threshInput # NoMask

\* C1's case: both detectors trigger and the call returns defects
C1_Witness ==
    /\ DiffReturned
    /\ brokenMode /\ geometryMode
    /\ difRes.HasDefects

\* C2: when the structural detector does not trigger and the geometry
\* detector does, the defects come from the geometry mask only: at most one
\* candidate, the union box, with the geometry_mismatch tag; the extraction
\* of diff contours is not run and no diff_contour candidate is returned.
C2_GeometryIsSoleSource ==
    (DiffReturned /\ ~brokenMode /\ geometryMode)
    => /\ difPath = "geometry"
       /\ Len(difRes.Defects) <= 1
       /\ \A d \in ResultDefects :
             /\ HasTag(d, "geometry_mismatch")
             /\ HasTag(d, "geometry_mask_union")
             /\ ~HasTag(d, "diff_contour")
       /\ threshInput = NoMask

\* C2's case: the geometry branch returns its union box, drawn around a
\* geometry mask of two separate components
C2_Witness ==
    /\ DiffReturned
    /\ ~brokenMode /\ geometryMode
    /\ Len(difRes.Defects) = 1
    /\ Len(FindContours(geometryMask)) = 2

\* C5: for an image that passes the quality gate, InspectDiff of the image
\* with itself returns has_defects = false and no defect, whatever the
\* structural and geometry stages decide, and the alignment score is 1.0.
C5_IdenticalImagesNoDefects ==
    (/\ difPc = "done"
     /\ baseImage = currentImage
     /\ baseImage.decodable
     /\ checkImageQuality(baseImage.img, DiffMaxGlareRatioPct).reason = GatePassed)
    => /\ difErr = <<>>
       /\ difRes.HasDefects = FALSE
       /\ difRes.Defects = <<>>
       /\ aligned.err = ""
       /\ aligned.score.den > 0
       /\ aligned.score.num = aligned.score.den

\* C5's case: an image compared with itself, the structural detector
\* triggering on it (the erosion splits the part at a thin neck)
C5_Witness ==
    /\ DiffReturned
    /\ baseImage = currentImage
    /\ brokenMode
    /\ difRes.Defects = <<>>

AlignmentRan == difPc \in {"aligned", "roi", "structural", "geometry", "done"}

C9_TriggerImpliesDefects ==
    (DiffReturned /\ (brokenMode \/ geometryMode))
    => /\ difRes.HasDefects
       /\ Len(difRes.Defects) >= 1

\* C10: on every exit path of InspectDiff every Mat created during the call
\* has been released when the call returns.
C10_EveryMatReleased ==
    difPc = "done" => liveMats = {}

-----------------------------------------------------------------------------
(* Claims about the results of both entry points, checked under Spec.      *)

\* C4: every defect candidate of every result returned by Inspect or
\* InspectDiff has Area = Width * Height of its bounding box, whichever
\* stages produced it.
C4_AreaIsWidthTimesHeight ==
    /\ \A i \in 1..Len(insRes.Defects) :
          insRes.Defects[i].Area = insRes.Defects[i].Width * insRes.Defects[i].Height
    /\ \A d \in ResultDefects : d.Area = d.Width * d.Height

\* C4's case: the broken branch returns a candidate that mergeNearbyDefects
\* made of two diff contours: a box larger than the contour its reason names
C4_Witness ==
    /\ DiffReturned
    /\ difPath = "broken"
    /\ \E d \in ResultDefects :
          /\ HasTag(d, "diff_contour")
          /\ d.Width = difRes.ImageWidth
          /\ d.Area > d.Reason[1].n

-----------------------------------------------------------------------------
(* The candidate-list harness: builds a list of well-formed candidates     *)
(* (Area = Width * Height, as extractDefectsFromContours makes them) and   *)
(* applies suppressDuplicateDefects to it.                                 *)
BoxSet(k) ==
    { DefectArea(x, 0, w, h, w * h, <<ReasonEntry("contour", k)>>) :
        x \in 0..MaxPos, w \in 1..MaxDim, h \in 1..MaxDim }

BoxInit ==
    /\ boxPc = "build"
    /\ cands = <<>>
    /\ kept = <<>>
    /\ InsIdle
    /\ DiffIdle
    /\ RepIdle
    /\ SvcIdle

AddCandidate ==
    /\ boxPc = "build"
    /\ Len(cands) < MaxCands
    /\ \E b \in BoxSet(Len(cands) + 1) : cands' = Append(cands, b)
    /\ UNCHANGED <<boxPc, kept>>
    /\ UNCHANGED otherThanBox

RunSuppress ==
    /\ boxPc = "build"
    /\ kept' = suppressDuplicateDefects(cands)
    /\ boxPc' = "done"
    /\ UNCHANGED cands
    /\ UNCHANGED otherThanBox

BoxNext == AddCandidate \/ RunSuppress

SpecNMS == BoxInit /\ [][BoxNext]_vars

-----------------------------------------------------------------------------
(* Claims about suppressDuplicateDefects, checked under SpecNMS.           *)
Survives(c) == \E k \in 1..Len(kept) : kept[k] = c
ReachesNMS(a, b) ==
    \/ GeqPct(boxIoU(a, b), NMSIoUThresholdPct)
    \/ GeqPct(boxContainment(a, b), NMSContainmentRatioPct)
IoUAbove(a, b) == GtPct(boxIoU(a, b), NMSIoUThresholdPct)

\* C3 as amended: the output holds no two distinct candidates whose IoU
\* reaches NMSIoUThreshold or whose containment reaches NMSContainmentRatio;
\* of two candidates with IoU above the threshold at most one survives, and
\* when the list holds just these two exactly one survives, of the larger
\* (or equal) area.
C3_NoConflictAmongKept ==
    boxPc = "done" =>
        /\ \A i, j \in 1..Len(kept) : i # j => ~ReachesNMS(kept[i], kept[j])
        /\ \A k \in 1..Len(kept) : \E i \in 1..Len(cands) : cands[i] = kept[k]
        /\ \A i, j \in 1..Len(cands) :
              (i # j /\ IoUAbove(cands[i], cands[j])) =>
                 /\ ~(Survives(cands[i]) /\ Survives(cands[j]))
                 /\ Len(cands) = 2 =>
                       /\ Survives(cands[i]) \/ Survives(cands[j])
                       /\ Survives(cands[i]) => cands[i].Area >= cands[j].Area

\* C3's case: a list of three, two of them overlapping above the threshold,
\* one dropped and two kept.
C3_Witness ==
    /\ boxPc = "done"
    /\ Len(cands) = 3
    /\ Len(kept) = 2
    /\ \E i, j \in 1..Len(cands) : i # j /\ IoUAbove(cands[i], cands[j])

\* C3 as stated: of any two candidates of the list with IoU above the
\* threshold, exactly one survives and it is the larger one.
C3_ExactlyOneOfEveryPair ==
    boxPc = "done" =>
        \A i, j \in 1..Len(cands) :
            (i # j /\ IoUAbove(cands[i], cands[j])) =>
                /\ Survives(cands[i]) # Survives(cands[j])
                /\ Survives(cands[i]) => cands[i].Area >= cands[j].Area

-----------------------------------------------------------------------------
(* The application services: MemoryUserRepository, UserService and         *)
(* InspectionService.  A *entity.User is an index into userRecs, the       *)
(* records allocated so far; 0 stands for no record.                       *)

\* entity.UserState
StateMainMenu == "StateMainMenu"
StateAwaitingOriginalPhoto == "StateAwaitingOriginalPhoto"
StateAwaitingDefectPhoto == "StateAwaitingDefectPhoto"
UserStates == {StateMainMenu, StateAwaitingOriginalPhoto, StateAwaitingDefectPhoto}

\* the byte slices a caller passes as a photo; "" is the slice of length 0
Photos == {"", "jpegA", "jpegB"}

\* entity.NewUser
NewUser(userID, chatID) == [ID |-> userID, ChatID |-> chatID, State |-> StateMainMenu]

\* the chat a user writes from
ChatOf(userID) == userID

\* MemoryUserRepository.Get by a single caller: the stored record, or a new
\* one which it stores
RepoGet(us, recs, userID, chatID) ==
    IF us[userID] # 0
    THEN [users |-> us, recs |-> recs, ref |-> us[userID]]
    ELSE [users |-> [us EXCEPT ![userID] = Len(recs) + 1],
          recs |-> Append(recs, NewUser(userID, chatID)),
          ref |-> Len(recs) + 1]

\* a SetState that leaves a user who is not in the main menu where they are
SetState_OnlyFromMainMenu(us, recs, userID, chatID, state) ==
    LET g == RepoGet(us, recs, userID, chatID)
    IN  [users |-> [g.users EXCEPT ![userID] = g.ref],
         recs |-> IF g.recs[g.ref].State = StateMainMenu
                  THEN [g.recs EXCEPT ![g.ref].State = state]
                  ELSE g.recs,
         ref |-> g.ref]

\* UserService.SetState: Get, user.SetState(state), Save
SetState(us, recs, userID, chatID, state) ==
    LET g == RepoGet(us, recs, userID, chatID)
    IN  [users |-> [g.users EXCEPT ![userID] = g.ref],
         recs |-> [g.recs EXCEPT ![g.ref].State = state],
         ref |-> g.ref]

\* a configured detector's InspectDiff or Inspect: an error, or a result
\* without or with candidates
DetectorReturns ==
    { [err |-> "failed to decode image", res |-> NoResult],
      [err |-> "quality gate failed", res |-> NoResult],
      [err |-> "", res |-> InspectionResult(MinImageSide, MinImageSide, <<>>)],
      [err |-> "", res |-> InspectionResult(MinImageSide, MinImageSide,
                     <<DefectArea(0, 0, 40, 40, 1600, <<ReasonEntry("diff_contour", 1600)>>)>>)] }

\* HighlightDefects: the encoded image, or nil with an error
HighlightReturns == {"", "highlighted.jpg"}

\* the checks ProcessDefectPhotoDiff makes before it calls the detector,
\* the original looked up first
PreconditionError_OriginalFirst(detector_, stored) ==
    IF stored = <<>> \/ stored[1] = "" THEN "original photo is not found"
    ELSE IF detector_ = "nil" THEN "detector is not configured"
    ELSE ""

PreconditionError(detector_, stored) ==
    IF detector_ = "nil" THEN "detector is not configured"
    ELSE IF stored = <<>> \/ stored[1] = "" THEN "original photo is not found"
    ELSE ""

SvcInit ==
    /\ BoxIdle /\ InsIdle /\ DiffIdle /\ RepIdle
    /\ detector \in {"nil", "GoCVDetector"}
    /\ SvcEmpty
    /\ ThIdle
    /\ BotIdle
    /\ MergeIdle /\ FnIdle

\* UserService.Get
Get(userID) ==
    /\ LET g == RepoGet(users, userRecs, userID, ChatOf(userID))
       IN  /\ users' = g.users
           /\ userRecs' = g.recs
           /\ svcRet' = SvcReturn("Get", userID, g.ref, "", NoOutput)
    /\ UNCHANGED <<detector, originals>>

\* UserService.BeginCheck, Cancel and InspectionService.AcceptDefectPhoto
SetStateCall(op, userID, state) ==
    /\ LET g == SetState(users, userRecs, userID, ChatOf(userID), state)
       IN  /\ users' = g.users
           /\ userRecs' = g.recs
           /\ svcRet' = SvcReturn(op, userID, g.ref, "", NoOutput)
    /\ UNCHANGED <<detector, originals>>

BeginCheck(userID) == SetStateCall("BeginCheck", userID, StateAwaitingOriginalPhoto)

Cancel(userID) == SetStateCall("Cancel", userID, StateMainMenu)

AcceptDefectPhoto(userID, photo) == SetStateCall("AcceptDefectPhoto", userID, StateMainMenu)

AcceptOriginalPhoto(userID, photo) ==
    /\ originals' = [originals EXCEPT ![userID] = <<photo>>]
    /\ LET g == SetState(users, userRecs, userID, ChatOf(userID), StateAwaitingDefectPhoto)
       IN  /\ users' = g.users
           /\ userRecs' = g.recs
           /\ svcRet' = SvcReturn("AcceptOriginalPhoto", userID, g.ref, "", NoOutput)
    /\ UNCHANGED detector

\* what the service makes of the detector's answer
OutputOf(op, userID, answer, highlighted) ==
    IF answer.err # "" THEN SvcReturn(op, userID, 0, answer.err, NoOutput)
    ELSE SvcReturn(op, userID, 0, "",
                   InspectionOutput(answer.res,
                                    IF answer.res.HasDefects THEN highlighted ELSE ""))

ProcessDefectPhotoDiff(userID, current) ==
    /\ LET pre == PreconditionError(detector, originals[userID])
       IN  IF pre # ""
           THEN svcRet' = SvcReturn("ProcessDefectPhotoDiff", userID, 0, pre, NoOutput)
           ELSE \E answer \in DetectorReturns, highlighted \in HighlightReturns :
                  svcRet' = OutputOf("ProcessDefectPhotoDiff", userID, answer, highlighted)
    /\ UNCHANGED <<detector, users, userRecs, originals>>

ProcessDefectPhoto(photo) ==
    /\ IF detector = "nil"
       THEN svcRet' = SvcReturn("ProcessDefectPhoto", 0, 0, "detector is not configured",
                                NoOutput)
       ELSE \E answer \in DetectorReturns, highlighted \in HighlightReturns :
              svcRet' = OutputOf("ProcessDefectPhoto", 0, answer, highlighted)
    /\ UNCHANGED <<detector, users, userRecs, originals>>

\* one more call by some caller, one call at a time
SvcCall(call) ==
    /\ svcCalls < MaxCalls
    /\ svcCalls' = svcCalls + 1
    /\ call
    /\ UNCHANGED <<thPc, thOp, thUser, thState, thRet>>
    /\ UNCHANGED otherThanSvc

SvcNext ==
    \/ \E u \in UserIDs : SvcCall(Get(u))
    \/ \E u \in UserIDs : SvcCall(BeginCheck(u))
    \/ \E u \in UserIDs : SvcCall(Cancel(u))
    \/ \E u \in UserIDs, p \in Photos : SvcCall(AcceptOriginalPhoto(u, p))
    \/ \E u \in UserIDs, p \in Photos : SvcCall(AcceptDefectPhoto(u, p))
    \/ \E u \in UserIDs, p \in Photos : SvcCall(ProcessDefectPhotoDiff(u, p))
    \/ \E p \in Photos : SvcCall(ProcessDefectPhoto(p))

SpecService == SvcInit /\ [][SvcNext]_vars

\* C13: without a detector ProcessDefectPhotoDiff and ProcessDefectPhoto
\* return the error "detector is not configured" and no output, for every
\* user and photo and whether or not an original is stored for the user, and
\* the call leaves the users, their records and the originals as they were.
ProcessCalled ==
    /\ svcCalls' = svcCalls + 1
    /\ svcRet'.op \in {"ProcessDefectPhotoDiff", "ProcessDefectPhoto"}
C13_NoDetectorNoProcessing ==
    [][(ProcessCalled /\ detector = "nil") =>
          /\ svcRet'.err = "detector is not configured"
          /\ svcRet'.out = NoOutput
          /\ UNCHANGED <<users, userRecs, originals>>]_vars

\* C13's case: ProcessDefectPhotoDiff has returned that error for a user
\* with a stored original, and for a user without one
C13_Witness ==
    /\ detector = "nil"
    /\ svcRet.op = "ProcessDefectPhotoDiff"
    /\ svcRet.err = "detector is not configured"
    /\ originals[svcRet.user] # <<>>
    /\ \E u \in UserIDs : originals[u] = <<>>

\* the dialog operations and the state each of them sets
DialogOps == {"BeginCheck", "Cancel", "AcceptOriginalPhoto", "AcceptDefectPhoto"}
TargetState(op) ==
    CASE op = "BeginCheck" -> StateAwaitingOriginalPhoto
      [] op = "Cancel" -> StateMainMenu
      [] op = "AcceptOriginalPhoto" -> StateAwaitingDefectPhoto
      [] op = "AcceptDefectPhoto" -> StateMainMenu

\* C15: BeginCheck, Cancel, AcceptOriginalPhoto and AcceptDefectPhoto return
\* without error the user's stored record (created in the main menu when
\* the user is new) in the operation's target state, whatever state the
\* user was in, and a Get for that user that follows returns that record in
\* that state.
C15_DialogOperationsSetTheirState ==
    [][/\ (svcCalls' = svcCalls + 1 /\ svcRet'.op \in DialogOps) =>
             /\ svcRet'.err = ""
             /\ svcRet'.ref # 0
             /\ users'[svcRet'.user] = svcRet'.ref
             /\ userRecs'[svcRet'.ref].ID = svcRet'.user
             /\ userRecs'[svcRet'.ref].State = TargetState(svcRet'.op)
       /\ (/\ svcCalls' = svcCalls + 1
           /\ svcRet.op \in DialogOps
           /\ svcRet'.op = "Get" /\ svcRet'.user = svcRet.user) =>
             /\ svcRet'.ref = svcRet.ref
             /\ userRecs'[svcRet'.ref].State = TargetState(svcRet.op)]_vars

\* C15's case: a Get returns the user in the state AcceptOriginalPhoto set,
\* after three calls for that user
C15_Witness ==
    /\ svcCalls = MaxCalls
    /\ Len(userRecs) = 1
    /\ svcRet.op = "Get"
    /\ originals[svcRet.user] # <<>>
    /\ userRecs[svcRet.ref].State = StateAwaitingDefectPhoto

-----------------------------------------------------------------------------
(* MemoryUserRepository under concurrent callers.  Each goroutine calls    *)
(* UserService.Get or UserService.SetState once; a section of code under   *)
(* r.mu is one step.                                                       *)

\* a goroutine enters Get (directly, or as the first statement of SetState)
ThreadCall(t) ==
    /\ thPc[t] = "idle"
    /\ \E op \in {"Get", "SetState"}, u \in UserIDs, st \in UserStates :
         /\ thOp' = [thOp EXCEPT ![t] = op]
         /\ thUser' = [thUser EXCEPT ![t] = u]
         /\ thState' = [thState EXCEPT ![t] = st]
    /\ thPc' = [thPc EXCEPT ![t] = "lookup"]
    /\ UNCHANGED <<thRet, users, userRecs>>

\* Get, lines 26-32: the lookup under RLock, and the return when it finds
GetLookup(t) ==
    /\ thPc[t] = "lookup"
    /\ IF users[thUser[t]] # 0
       THEN /\ thRet' = [thRet EXCEPT ![t] = users[thUser[t]]]
            /\ thPc' = [thPc EXCEPT ![t] = "returned"]
       ELSE /\ thPc' = [thPc EXCEPT ![t] = "create"]
            /\ UNCHANGED thRet
    /\ UNCHANGED <<thOp, thUser, thState, users, userRecs>>

\* Get, lines 35-41: the new record, the store under Lock (made whatever
\* the map holds by now), the return
GetCreate(t) ==
    /\ thPc[t] = "create"
    /\ userRecs' = Append(userRecs, NewUser(thUser[t], ChatOf(thUser[t])))
    /\ users' = [users EXCEPT ![thUser[t]] = Len(userRecs) + 1]
    /\ thRet' = [thRet EXCEPT ![t] = Len(userRecs) + 1]
    /\ thPc' = [thPc EXCEPT ![t] = "returned"]
    /\ UNCHANGED <<thOp, thUser, thState>>

\* UserService.Get returns what the repository returned
GetReturn(t) ==
    /\ thPc[t] = "returned"
    /\ thOp[t] = "Get"
    /\ thPc' = [thPc EXCEPT ![t] = "done"]
    /\ UNCHANGED <<thOp, thUser, thState, thRet, users, userRecs>>

\* UserService.SetState, line 31: user.SetState(state) on the record received
SetStateAssign(t) ==
    /\ thPc[t] = "returned"
    /\ thOp[t] = "SetState"
    /\ userRecs' = [userRecs EXCEPT ![thRet[t]].State = thState[t]]
    /\ thPc' = [thPc EXCEPT ![t] = "save"]
    /\ UNCHANGED <<thOp, thUser, thState, thRet, users>>

\* UserService.SetState, line 32: repo.Save(user), the store under Lock
SetStateSave(t) ==
    /\ thPc[t] = "save"
    /\ users' = [users EXCEPT ![thUser[t]] = thRet[t]]
    /\ thPc' = [thPc EXCEPT ![t] = "done"]
    /\ UNCHANGED <<thOp, thUser, thState, thRet, userRecs>>

RepoInit ==
    /\ BoxIdle /\ InsIdle /\ DiffIdle /\ RepIdle
    /\ SvcIdle

RepoNext ==
    \E t \in Threads :
        /\ \/ ThreadCall(t)
           \/ GetLookup(t)
           \/ GetCreate(t)
           \/ GetReturn(t)
           \/ SetStateAssign(t)
           \/ SetStateSave(t)
        /\ UNCHANGED <<boxVars, insVars, difVars, repVars, botVars, mrgVars, fnVars,
                       detector, originals,
                       svcCalls, svcRet>>

SpecRepo == RepoInit /\ [][RepoNext]_vars

\* the records allocated for a user ID
RecordsOf(userID) == { i \in 1..Len(userRecs) : userRecs[i].ID = userID }
\* the record a Get made now would return
StoredRecord(userID) == users[userID]

\* C14 as stated: when goroutines call Get (alone or inside SetState) at
\* the same time, one record is created for a user ID, every caller
\* receives it, and it is the record a later Get returns, so that a state
\* set through it is seen.
C14_OneRecordPerUser ==
    /\ \A u \in UserIDs : Cardinality(RecordsOf(u)) <= 1
    /\ \A t \in Threads :
          thPc[t] \in {"returned", "save", "done"} => StoredRecord(thUser[t]) = thRet[t]
    /\ \A t1, t2 \in Threads :
          (/\ thPc[t1] \in {"returned", "save", "done"}
           /\ thPc[t2] \in {"returned", "save", "done"}
           /\ thUser[t1] = thUser[t2]) => thRet[t1] = thRet[t2]

\* the failing run's end: two callers of Get hold different records of one
\* user, and the state set through one of them is not the state a later Get
\* returns
C14_LostRecord ==
    \E t1, t2 \in Threads :
        /\ thPc[t1] = "done" /\ thPc[t2] = "done"
        /\ thUser[t1] = thUser[t2]
        /\ thRet[t1] # thRet[t2]
        /\ thOp[t1] = "SetState" /\ thOp[t2] = "Get"
        /\ StoredRecord(thUser[t1]) = thRet[t1]
        /\ userRecs[thRet[t2]].State # userRecs[thRet[t1]].State

-----------------------------------------------------------------------------
(* The Telegram bot: Run hands the updates to handleMessage one at a time; *)
(* handleAwaitingDefect starts a goroutine processDefectPhoto for each     *)
(* defect photo it accepts.  A text sent to the chat is kept by its name.  *)

msgStart == "msgStart"
msgHelp == "msgHelp"
msgAwaitingOriginal == "msgAwaitingOriginal"
msgAwaitingDefect == "msgAwaitingDefect"
msgCancelled == "msgCancelled"
msgOnlyCancel == "msgOnlyCancel"
msgProcessing == "msgProcessing"
msgProcessingError == "msgProcessingError"
msgDefectsFound == "msgDefectsFound"
msgNoDefects == "msgNoDefects"
\* sendPhoto's upload
resultJpg == "result.jpg"

\* what a user sends: a command, a text, a photo that downloads as the
\* named bytes, or a photo whose download fails
cmdStart == "/start"
cmdHelp == "/help"
cmdCheck == "/check"
cmdCancel == "/cancel"
Commands == {cmdStart, cmdHelp, cmdCheck, cmdCancel, "/other"}
Updates == Commands \cup {"text", "photoFail", "jpegA", "jpegB"}
IsCommand(m) == m \in Commands

\* extractPhoto: the bytes (none for a message without photo) and the error
extractPhoto(m) ==
    IF m = "photoFail" THEN [data |-> "", err |-> "download file"]
    ELSE IF m \in {"jpegA", "jpegB"} THEN [data |-> m, err |-> ""]
    ELSE [data |-> "", err |-> ""]

\* what a handler did: the services' state after it, the text it sent and
\* the photo it passed to a new goroutine ("" when it started none)
Handled(us, recs, origs, reply, go) ==
    [users |-> us, recs |-> recs, originals |-> origs, reply |-> reply, go |-> go]

\* a handleMainMenu that takes a photo for the original of a new check
handleMainMenu_PhotoBeginsCheck(us, recs, origs, userID, m) ==
    IF m = cmdStart THEN Handled(us, recs, origs, msgStart, "")
    ELSE IF m = cmdHelp THEN Handled(us, recs, origs, msgHelp, "")
    ELSE IF m = cmdCheck
    THEN LET s == SetState(us, recs, userID, ChatOf(userID), StateAwaitingOriginalPhoto)
         IN  Handled(s.users, s.recs, origs, msgAwaitingOriginal, "")
    ELSE IF extractPhoto(m).data # ""
    THEN LET s == SetState(us, recs, userID, ChatOf(userID), StateAwaitingDefectPhoto)
         IN  Handled(s.users, s.recs, [origs EXCEPT ![userID] = <<m>>],
                     msgAwaitingDefect, "")
    ELSE Handled(us, recs, origs, msgStart, "")

handleMainMenu(us, recs, origs, userID, m) ==
    IF m = cmdStart THEN Handled(us, recs, origs, msgStart, "")
    ELSE IF m = cmdHelp THEN Handled(us, recs, origs, msgHelp, "")
    ELSE IF m = cmdCheck
    THEN LET s == SetState(us, recs, userID, ChatOf(userID), StateAwaitingOriginalPhoto)
         IN  Handled(s.users, s.recs, origs, msgAwaitingOriginal, "")
    ELSE Handled(us, recs, origs, msgStart, "")

handleAwaitingOriginal(us, recs, origs, userID, m) ==
    LET photo == extractPhoto(m)
    IN  IF IsCommand(m)
        THEN IF m = cmdCancel
             THEN LET s == SetState(us, recs, userID, ChatOf(userID), StateMainMenu)
                  IN  Handled(s.users, s.recs, origs, msgCancelled, "")
             ELSE Handled(us, recs, origs, msgOnlyCancel, "")
        ELSE IF photo.err # "" THEN Handled(us, recs, origs, msgProcessingError, "")
        ELSE IF photo.data = "" THEN Handled(us, recs, origs, msgAwaitingOriginal, "")
        ELSE LET s == SetState(us, recs, userID, ChatOf(userID), StateAwaitingDefectPhoto)
             IN  Handled(s.users, s.recs, [origs EXCEPT ![userID] = <<photo.data>>],
                         msgAwaitingDefect, "")

handleAwaitingDefect(us, recs, origs, userID, m) ==
    LET photo == extractPhoto(m)
    IN  IF IsCommand(m)
        THEN IF m = cmdCancel
             THEN LET s == SetState(us, recs, userID, ChatOf(userID), StateMainMenu)
                  IN  Handled(s.users, s.recs, origs, msgCancelled, "")
             ELSE Handled(us, recs, origs, msgOnlyCancel, "")
        ELSE IF photo.err # "" THEN Handled(us, recs, origs, msgProcessingError, "")
        ELSE IF photo.data = "" THEN Handled(us, recs, origs, msgAwaitingDefect, "")
        ELSE LET s == SetState(us, recs, userID, ChatOf(userID), StateMainMenu)
             IN  Handled(s.users, s.recs, origs, msgProcessing, photo.data)

\* handleMessage: the user is looked up (and created), the handler chosen
\* by the user's state
handleMessage(userID, m) ==
    LET g == RepoGet(users, userRecs, userID, ChatOf(userID))
        state == g.recs[g.ref].State
    IN  IF state = StateMainMenu
        THEN handleMainMenu(g.users, g.recs, originals, userID, m)
        ELSE IF state = StateAwaitingOriginalPhoto
        THEN handleAwaitingOriginal(g.users, g.recs, originals, userID, m)
        ELSE IF state = StateAwaitingDefectPhoto
        THEN handleAwaitingDefect(g.users, g.recs, originals, userID, m)
        ELSE LET s == SetState(g.users, g.recs, userID, ChatOf(userID), StateMainMenu)
             IN  Handled(s.users, s.recs, originals, msgStart, "")

\* a goroutine processDefectPhoto: its arguments, where it is, what
\* ProcessDefectPhotoDiff returned to it, and the texts and photos sent to
\* the chat for its defect photo, the handler's message included; original
\* is the entry of s.originals when the defect photo was accepted, base the
\* entry ProcessDefectPhotoDiff read (<<>> while it has read none)
Job(userID, photo, original, replies) ==
    [user |-> userID, photo |-> photo, pc |-> "started", original |-> original,
     base |-> <<>>, ret |-> SvcReturn("", 0, 0, "", NoOutput), sent |-> replies]

\* what ProcessDefectPhotoDiff may return to a caller
ProcessDefectPhotoDiffReturns(userID) ==
    LET pre == PreconditionError(detector, originals[userID])
    IN  IF pre # ""
        THEN { SvcReturn("ProcessDefectPhotoDiff", userID, 0, pre, NoOutput) }
        ELSE { OutputOf("ProcessDefectPhotoDiff", userID, answer, highlighted) :
                 answer \in DetectorReturns, highlighted \in HighlightReturns }

\* an outcome text of its own for a photo that fails the quality gate
OutcomeMessage_ByErrorKind(ret) ==
    IF ret.err = "quality gate failed" THEN msgAwaitingDefect
    ELSE IF ret.err # "" THEN msgProcessingError
    ELSE IF ret.out = NoOutput THEN msgProcessingError
    ELSE IF ret.out[1].Result.HasDefects THEN msgDefectsFound
    ELSE msgNoDefects

\* processDefectPhoto after the call: the text it sends
OutcomeMessage(ret) ==
    IF ret.err # "" THEN msgProcessingError
    ELSE IF ret.out = NoOutput THEN msgProcessingError
    ELSE IF ret.out[1].Result.HasDefects THEN msgDefectsFound
    ELSE msgNoDefects

\* and whether it sends the highlighted photo after the text
SendsPhoto(ret) ==
    /\ ret.err = "" /\ ret.out # NoOutput
    /\ ret.out[1].Result.HasDefects
    /\ ret.out[1].Highlighted # ""

BotInit ==
    /\ BoxIdle /\ InsIdle /\ DiffIdle /\ RepIdle
    /\ detector \in {"nil", "GoCVDetector"}
    /\ SvcEmpty
    /\ ThIdle
    /\ BotIdle
    /\ MergeIdle /\ FnIdle

\* Run: the next update is handled
HandleUpdate ==
    /\ botUpdates < MaxUpdates
    /\ \E u \in UserIDs, m \in Updates :
         LET h == handleMessage(u, m)
         IN  /\ users' = h.users
             /\ userRecs' = h.recs
             /\ originals' = h.originals
             /\ botUpdate' = <<[user |-> u, msg |-> m]>>
             /\ botReply' = h.reply
             /\ jobs' = IF h.go # ""
                        THEN Append(jobs, Job(u, h.go, originals[u],
                                              IF h.reply = "" THEN <<>> ELSE <<h.reply>>))
                        ELSE jobs
    /\ botUpdates' = botUpdates + 1
    /\ UNCHANGED <<detector, svcCalls, svcRet, thPc, thOp, thUser, thState, thRet>>

\* processDefectPhoto, line 205: the call of ProcessDefectPhotoDiff
JobProcess(j) ==
    /\ jobs[j].pc = "started"
    /\ \E ret \in ProcessDefectPhotoDiffReturns(jobs[j].user) :
         jobs' = [jobs EXCEPT ![j].ret = ret, ![j].pc = "processed",
                              ![j].base = IF detector = "nil" THEN <<>>
                                          ELSE originals[jobs[j].user]]
    /\ UNCHANGED <<botUpdates, botUpdate, botReply, svcVars>>

\* processDefectPhoto, lines 206-261: the text
JobNotify(j) ==
    /\ jobs[j].pc = "processed"
    /\ jobs' = [jobs EXCEPT ![j].sent = Append(@, OutcomeMessage(jobs[j].ret)),
                            ![j].pc = IF SendsPhoto(jobs[j].ret) THEN "photo" ELSE "done"]
    /\ UNCHANGED <<botUpdates, botUpdate, botReply, svcVars>>

\* processDefectPhoto, lines 255-257: the highlighted photo
JobSendPhoto(j) ==
    /\ jobs[j].pc = "photo"
    /\ jobs' = [jobs EXCEPT ![j].sent = Append(@, resultJpg), ![j].pc = "done"]
    /\ UNCHANGED <<botUpdates, botUpdate, botReply, svcVars>>

JobStep == \E j \in 1..Len(jobs) : JobProcess(j) \/ JobNotify(j) \/ JobSendPhoto(j)

BotNext ==
    \/ HandleUpdate /\ UNCHANGED otherThanBot
    \/ (\E j \in 1..Len(jobs) : JobProcess(j)) /\ UNCHANGED otherThanBot
    \/ (\E j \in 1..Len(jobs) : JobNotify(j)) /\ UNCHANGED otherThanBot
    \/ (\E j \in 1..Len(jobs) : JobSendPhoto(j)) /\ UNCHANGED otherThanBot

\* a started goroutine runs on to its return
SpecBot == BotInit /\ [][BotNext]_vars /\ WF_vars(JobStep /\ UNCHANGED otherThanBot)

\* the messages of a finished goroutine, by what the service returned to it
ExpectedMessages(ret) ==
    IF ret.err # "" \/ ret.out = NoOutput THEN <<msgProcessing, msgProcessingError>>
    ELSE IF ~ret.out[1].Result.HasDefects THEN <<msgProcessing, msgNoDefects>>
    ELSE IF ret.out[1].Highlighted = "" THEN <<msgProcessing, msgDefectsFound>>
    ELSE <<msgProcessing, msgDefectsFound, resultJpg>>

\* C16: for each accepted defect photo the chat gets msgProcessing first and
\* then one outcome: msgProcessingError for any error of
\* ProcessDefectPhotoDiff (or no result), msgDefectsFound for a result with
\* defects, followed by the highlighted photo when there are highlight
\* bytes, and msgNoDefects otherwise; and the outcome does arrive.
C16_ProcessingThenOneOutcome ==
    /\ [](\A j \in 1..Len(jobs) :
            /\ Len(jobs[j].sent) >= 1 /\ jobs[j].sent[1] = msgProcessing
            /\ jobs[j].pc = "started" => jobs[j].sent = <<msgProcessing>>
            /\ jobs[j].pc = "processed" => jobs[j].sent = <<msgProcessing>>
            /\ jobs[j].pc = "photo" =>
                  /\ jobs[j].sent = <<msgProcessing, msgDefectsFound>>
                  /\ ExpectedMessages(jobs[j].ret) = <<msgProcessing, msgDefectsFound, resultJpg>>
            /\ jobs[j].pc = "done" => jobs[j].sent = ExpectedMessages(jobs[j].ret))
    /\ \A j \in 1..MaxUpdates :
          (Len(jobs) >= j) ~> (Len(jobs) >= j /\ jobs[j].pc = "done")

\* C16's case: of two finished goroutines one has sent the defects text
\* and the photo, the other the error text after a failed quality gate
C16_Witness ==
    \E j, k \in 1..Len(jobs) :
        /\ jobs[j].pc = "done"
        /\ jobs[j].sent = <<msgProcessing, msgDefectsFound, resultJpg>>
        /\ jobs[k].pc = "done"
        /\ jobs[k].ret.err = "quality gate failed"
        /\ jobs[k].sent = <<msgProcessing, msgProcessingError>>

-----------------------------------------------------------------------------
(* mergeNearbyDefects, one pass of its loop at a time: a call on a list of *)
(* candidates in one row, with gaps of up to MaxMergePos between them.     *)

MergeBoxSet(k) ==
    { DefectArea(x, 0, w, 1, w, <<ReasonEntry("diff_contour", k)>>) :
        x \in 0..MaxMergePos, w \in 1..MaxDim }

\* the distances a caller passes: a negative one, zero, and gaps that occur
MergeDistances == (0 - 1)..MaxDim

\* line 2201: a negative distance counts as 0
NormalDistance(distance) == IF distance < 0 THEN 0 ELSE distance

\* a mergeNearbyDefects that returns after its first pass
MergeReturns_AfterOnePass(defects, merged) == TRUE

\* and one that goes on for as long as two candidates are left
MergeReturns_OnlySingle(defects, merged) == Len(merged) < 2

\* line 2220: the pass has merged nothing, the merged list is returned
MergeReturns(defects, merged) == Len(merged) = Len(defects)

MergeInit ==
    /\ BoxIdle /\ InsIdle /\ DiffIdle /\ RepIdle
    /\ detector = "nil" /\ SvcEmpty /\ ThIdle /\ BotIdle /\ FnIdle
    /\ mergePc = "build"
    /\ mergeIn = <<>>
    /\ mergeList = <<>>
    /\ mergeDistance = 0
    /\ mergeRecursed = FALSE
    /\ mergeOut = <<>>

\* the caller's list grows by a candidate
MergeAddCandidate ==
    /\ mergePc = "build"
    /\ Len(mergeIn) < MaxCands
    /\ \E b \in MergeBoxSet(Len(mergeIn) + 1) : mergeIn' = Append(mergeIn, b)
    /\ UNCHANGED <<mergePc, mergeList, mergeDistance, mergeRecursed, mergeOut>>

\* the caller calls mergeNearbyDefects(defects, distance)
MergeCall ==
    /\ mergePc = "build"
    /\ \E distance \in MergeDistances : mergeDistance' = distance
    /\ mergeList' = mergeIn
    /\ mergePc' = "call"
    /\ UNCHANGED <<mergeIn, mergeRecursed, mergeOut>>

\* lines 2198-2200: fewer than two candidates are returned as they are
MergeReturnShort ==
    /\ mergePc = "call"
    /\ Len(mergeList) < 2
    /\ mergeOut' = mergeList
    /\ mergePc' = "done"
    /\ UNCHANGED <<mergeIn, mergeList, mergeDistance, mergeRecursed>>

\* lines 2205-2222: one pass over the list, and the return of its result
MergePassReturns ==
    /\ mergePc = "call"
    /\ Len(mergeList) >= 2
    /\ LET merged == MergePass(mergeList, <<>>, NormalDistance(mergeDistance))
       IN  /\ MergeReturns(mergeList, merged)
           /\ mergeOut' = merged
    /\ mergePc' = "done"
    /\ UNCHANGED <<mergeIn, mergeList, mergeDistance, mergeRecursed>>

\* lines 2205-2223: one pass over the list, and the call on its result
MergePassRecurses ==
    /\ mergePc = "call"
    /\ Len(mergeList) >= 2
    /\ LET merged == MergePass(mergeList, <<>>, NormalDistance(mergeDistance))
       IN  /\ ~MergeReturns(mergeList, merged)
           /\ mergeList' = merged
    /\ mergeDistance' = NormalDistance(mergeDistance)
    /\ mergeRecursed' = TRUE
    /\ UNCHANGED <<mergePc, mergeIn, mergeOut>>

MergeStep == MergeReturnShort \/ MergePassReturns \/ MergePassRecurses

MergeNext ==
    \/ MergeAddCandidate /\ UNCHANGED otherThanMerge
    \/ MergeCall /\ UNCHANGED otherThanMerge
    \/ MergeReturnShort /\ UNCHANGED otherThanMerge
    \/ MergePassReturns /\ UNCHANGED otherThanMerge
    \/ MergePassRecurses /\ UNCHANGED otherThanMerge

\* a call that has begun runs on
SpecMerge == MergeInit /\ [][MergeNext]_vars /\ WF_vars(MergeStep /\ UNCHANGED otherThanMerge)

\* two boxes intersect, or their horizontal and vertical gaps are both at
\* most the distance
Intersecting(a, b) ==
    /\ a.X < b.X + b.Width /\ b.X < a.X + a.Width
    /\ a.Y < b.Y + b.Height /\ b.Y < a.Y + a.Height
GapX(a, b) == maxInt(a.X, b.X) - minInt(a.X + a.Width, b.X + b.Width)
GapY(a, b) == maxInt(a.Y, b.Y) - minInt(a.Y + a.Height, b.Y + b.Height)
Mergeable(a, b, distance) ==
    \/ Intersecting(a, b)
    \/ GapX(a, b) <= distance /\ GapY(a, b) <= distance

\* C22: the list mergeNearbyDefects returns is a fixpoint of merging: no two
\* of its boxes intersect or lie within the merge distance of each other in
\* both directions, a negative distance counting as 0.
C22_ReturnedListIsAFixpoint ==
    mergePc = "done" =>
        /\ mergeOut = mergeNearbyDefects(mergeIn, mergeDistance)
        /\ \A i, j \in 1..Len(mergeOut) :
              i # j => ~Mergeable(mergeOut[i], mergeOut[j], NormalDistance(mergeDistance))

\* C22's case: the first pass merged the third candidate into the first,
\* which then reached the second; the second pass merged these two; and
\* another call returned two candidates further apart than the distance
C22_Witness ==
    /\ mergePc = "done" /\ mergeRecursed
    /\ Len(mergeIn) = 3 /\ Len(mergeOut) = 1
    /\ ~Mergeable(mergeIn[1], mergeIn[2], NormalDistance(mergeDistance))
    /\ mergeDistance > 0

C22_WitnessApart ==
    /\ mergePc = "done" /\ ~mergeRecursed
    /\ Len(mergeIn) = 2 /\ Len(mergeOut) = 2
    /\ mergeDistance < 0

\* C23: mergeNearbyDefects terminates for every list and distance: a pass
\* either merges nothing and returns, or the function calls itself on a
\* strictly shorter list.
C23_MergeTerminates ==
    /\ [][mergePc = "call" =>
            \/ mergePc' = "done" /\ Len(mergeOut') = Len(mergeList)
            \/ mergePc' = "call" /\ Len(mergeList') < Len(mergeList)]_vars
    /\ (mergePc = "call") ~> (mergePc = "done")

\* C23's case: a call that has called itself twice before it returned: the
\* list of three shrank to two and to one
C23_Witness ==
    /\ mergePc = "done" /\ mergeRecursed
    /\ Len(mergeIn) = MaxCands /\ Len(mergeOut) = 1
    /\ Len(MergePass(mergeIn, <<>>, NormalDistance(mergeDistance))) = 2

-----------------------------------------------------------------------------
(* Calls of the detector's pure functions on arguments drawn from small    *)
(* sets around their thresholds.                                           *)

\* candidate lists for keepDominantBrokenDefects: the k-th candidate starts
\* at X = k and has an area in 0..MaxCandArea
RECURSIVE AreaLists(_)
AreaLists(n) ==
    IF n = 0 THEN { <<>> }
    ELSE AreaLists(n - 1) \cup
         { Append(l, DefectArea(Len(l) + 1, 0, 1, 1, a,
                                <<ReasonEntry("diff_contour", Len(l) + 1)>>)) :
             l \in { m \in AreaLists(n - 1) : Len(m) = n - 1 }, a \in 0..MaxCandArea }

\* minRatio in hundredths: negative, zero, the profile's, 1 and above 1
DominantRatios == {0 - 10, 0, BrokenDominantMinRatioPct, 100, 150}

DominantInputs ==
    { [fn |-> "keepDominantBrokenDefects", defects |-> l, minRatioPct |-> r] :
        l \in AreaLists(MaxCands), r \in DominantRatios }

\* shape descriptors on both sides of every threshold of determineShapeFamily
FamilyInputs ==
    { [fn |-> "determineShapeFamily", concavity |-> c, vertices |-> v,
       circularityPct |-> ci, extentPct |-> e] :
        c \in {0, GeometryMinConcavity - 1, GeometryMinConcavity, GeometryMinConcavity + 1},
        v \in {2, 3, 12, 13},
        ci \in {GeometryPolygonMinCircularityPct - 1, GeometryPolygonMinCircularityPct,
                GeometryRoundMinCircularityPct - 1, GeometryRoundMinCircularityPct,
                GeometryRoundMinCircularityPct + 1},
        e \in {GeometryPolygonMinExtentPct - 1, GeometryPolygonMinExtentPct,
               GeometryPolygonMinExtentPct + 1} }

\* shapes of every family, with gaps below and at the rules' thresholds
RuleShapes ==
    { describeContourShape(TRUE, t[1], t[2], t[3], t[4]) :
        t \in { <<8, 16, 40, 60>>, <<9, 16, 40, 60>>, <<10, 16, 40, 60>>,
                <<0, 8, 82, 78>>, <<0, 8, 91, 78>>, <<0, 8, 92, 78>>,
                <<0, 4, 78, 100>>, <<0, 5, 70, 60>>, <<0, 6, 70, 60>>,
                <<7, 13, 30, 40>>, <<0, 2, 60, 60>> } }
    \cup { describeContourShape(FALSE, 0, 4, 78, 100) }

RuleInputs ==
    { [fn |-> "detectGeometryMismatch", base |-> b, current |-> c, shapeScorePct |-> s] :
        b \in RuleShapes, c \in RuleShapes,
        s \in {0, GeometryMatchMaxScorePct, GeometryMatchMaxScorePct + 1} }

FnInit ==
    /\ BoxIdle /\ InsIdle /\ DiffIdle /\ RepIdle
    /\ detector = "nil" /\ SvcEmpty /\ ThIdle /\ BotIdle /\ MergeIdle
    /\ fnPc = "start"
    /\ fnIn \in DominantInputs \cup FamilyInputs \cup RuleInputs
    /\ fnOut = <<>>

CallKeepDominant ==
    /\ fnPc = "start"
    /\ fnIn.fn = "keepDominantBrokenDefects"
    /\ fnOut' = <<keepDominantBrokenDefects(fnIn.defects, fnIn.minRatioPct)>>
    /\ fnPc' = "done"
    /\ UNCHANGED fnIn

CallDetermineShapeFamily ==
    /\ fnPc = "start"
    /\ fnIn.fn = "determineShapeFamily"
    /\ fnOut' = <<determineShapeFamily(fnIn.concavity, fnIn.vertices, fnIn.circularityPct,
                                       fnIn.extentPct)>>
    /\ fnPc' = "done"
    /\ UNCHANGED fnIn

\* detectGeometryMismatch on two part masks that differ, gocv reporting the
\* two shapes and the score for them: whether it triggered
CallDetectGeometryMismatch ==
    /\ fnPc = "start"
    /\ fnIn.fn = "detectGeometryMismatch"
    /\ LET bMask == Mask(MinImageSide, MinImageSide, {1, 2})
           cMask == Mask(MinImageSide, MinImageSide, {2, 3})
           verdict == ShapeVerdict(fnIn.base, fnIn.current, fnIn.shapeScorePct)
       IN  fnOut' = <<detectGeometryMismatch(bMask, cMask, verdict,
                                             BitwiseXor(bMask, cMask), NoMask).mode>>
    /\ fnPc' = "done"
    /\ UNCHANGED fnIn

FnNext ==
    \/ CallKeepDominant /\ UNCHANGED otherThanFn
    \/ CallDetermineShapeFamily /\ UNCHANGED otherThanFn
    \/ CallDetectGeometryMismatch /\ UNCHANGED otherThanFn

SpecPure == FnInit /\ [][FnNext]_vars

\* the same candidate, whatever reason tags it carries
SameBox(a, b) ==
    /\ a.X = b.X /\ a.Y = b.Y /\ a.Width = b.Width /\ a.Height = b.Height
    /\ a.Area = b.Area

\* the largest area in a non-empty list
LargestArea(defects) ==
    CHOOSE a \in { defects[i].Area : i \in 1..Len(defects) } :
        \A i \in 1..Len(defects) : defects[i].Area <= a

DominantCalled == fnPc = "done" /\ fnIn.fn = "keepDominantBrokenDefects"

\* C24: for a non-empty input keepDominantBrokenDefects returns a non-empty
\* list of candidates of the input that holds every candidate of maximal
\* area and only candidates whose area is at least min(minRatio, 1) times
\* the maximal area; an input of fewer than two candidates, or any input
\* with minRatio <= 0, is returned unchanged.
C24_DominantCandidatesKept ==
    DominantCalled =>
        LET defects == fnIn.defects
            minRatioPct == fnIn.minRatioPct
            kept_ == fnOut[1]
            ratioPct == IF minRatioPct > 100 THEN 100 ELSE minRatioPct
        IN  /\ (Len(defects) < 2 \/ minRatioPct <= 0) => kept_ = defects
            /\ defects # <<>> =>
                 /\ kept_ # <<>>
                 /\ \A j \in 1..Len(kept_) :
                       /\ \E i \in 1..Len(defects) : SameBox(kept_[j], defects[i])
                       /\ kept_[j].Area * 100 >= ratioPct * LargestArea(defects)
                 /\ \A i \in 1..Len(defects) :
                       defects[i].Area = LargestArea(defects) =>
                           \E j \in 1..Len(kept_) : SameBox(kept_[j], defects[i])

\* C24's case: with a ratio above 1 two candidates of maximal area are kept
\* and a smaller one is dropped
C24_Witness ==
    /\ DominantCalled
    /\ fnIn.minRatioPct > 100
    /\ Len(fnIn.defects) = 3 /\ Len(fnOut[1]) = 2
    /\ LargestArea(fnIn.defects) > 0

FamilyCalled == fnPc = "done" /\ fnIn.fn = "determineShapeFamily"

\* the classification in its fixed priority, a threshold being cleared by a
\* value of at least the threshold (strict = 0) or above it (strict = 1)
FamilyByPriority(in, strict) ==
    IF in.concavity >= GeometryMinConcavity + strict THEN "toothed"
    ELSE IF in.circularityPct >= GeometryRoundMinCircularityPct + strict THEN "round"
    ELSE IF /\ in.vertices \in 3..12
            /\ in.circularityPct >= GeometryPolygonMinCircularityPct
            /\ in.extentPct >= GeometryPolygonMinExtentPct
         THEN "polygon"
    ELSE "unknown"

\* C25 as amended: the shape family is a total function of (concavity
\* count, vertex count, circularity, extent) evaluated in fixed priority:
\* toothed if the concavity count is at least GeometryMinConcavity; else
\* round if the circularity is at least GeometryRoundMinCircularity; else
\* polygon if the vertex count is in [3,12] and circularity and extent are at
\* least their polygon minimums; else unknown.
C25_FamilyByPriorityAtLeast ==
    FamilyCalled =>
        /\ fnOut[1] \in {"toothed", "round", "polygon", "unknown"}
        /\ fnOut[1] = FamilyByPriority(fnIn, 0)

\* C25 as stated: toothed if the concavity count exceeds
\* GeometryMinConcavity, else round if the circularity exceeds
\* GeometryRoundMinCircularity, else polygon, else unknown.
C25_FamilyByPriorityExceeds ==
    FamilyCalled => fnOut[1] = FamilyByPriority(fnIn, 1)

\* C25's case: a contour with as many concavities as GeometryMinConcavity
\* and a circularity of GeometryRoundMinCircularity is toothed, and one with
\* fewer concavities and that circularity is round
C25_Witness ==
    /\ FamilyCalled
    /\ fnIn.concavity = GeometryMinConcavity
    /\ fnIn.circularityPct = GeometryRoundMinCircularityPct
    /\ fnOut[1] = "toothed"

C25_WitnessRound ==
    /\ FamilyCalled
    /\ fnIn.concavity = GeometryMinConcavity - 1
    /\ fnIn.circularityPct = GeometryRoundMinCircularityPct
    /\ fnIn.vertices = 12
    /\ fnOut[1] = "round"

GeometryCalled == fnPc = "done" /\ fnIn.fn = "detectGeometryMismatch"

BothOf(family) == fnIn.base.family = family /\ fnIn.current.family = family
GapOf(a, b) == IF a >= b THEN a - b ELSE b - a

\* the rules of C26 on the two shapes gocv reported
RuleFamilies ==
    /\ fnIn.base.family # "unknown" /\ fnIn.current.family # "unknown"
    /\ fnIn.base.family # fnIn.current.family
RuleToothCount ==
    /\ BothOf("toothed")
    /\ GapOf(fnIn.base.concavity, fnIn.current.concavity) >= GeometryMinConcavityGap
RulePolygonVertices ==
    /\ BothOf("polygon")
    /\ fnIn.base.vertices <= 12 /\ fnIn.current.vertices <= 12
    /\ GapOf(fnIn.base.vertices, fnIn.current.vertices) >= GeometryPolygonVertexGap
RuleRoundProfile ==
    /\ BothOf("round")
    /\ GapOf(fnIn.base.circularity, fnIn.current.circularity)
          >= GeometryRoundMaxCircularityGapPct
RuleToothedShape ==
    /\ BothOf("toothed")
    /\ GapOf(fnIn.base.concavity, fnIn.current.concavity) >= 1
    /\ fnIn.shapeScorePct > GeometryMatchMaxScorePct

\* C26: for two masks with a largest contour each, the geometry detector
\* triggers exactly when one of its rules holds: differing non-unknown
\* families; both toothed with a concavity gap of at least
\* GeometryMinConcavityGap; both polygon with vertex counts of at most 12 and
\* a vertex gap of at least GeometryPolygonVertexGap; both round with a
\* circularity gap of at least GeometryRoundMaxCircularityGap; both toothed
\* with a concavity gap of at least 1 and a shape score above
\* GeometryMatchMaxScore.  It never triggers when a shape is unknown, and
\* the score does not trigger it for a pair that is not toothed.
C26_TriggersExactlyByItsRules ==
    (GeometryCalled /\ fnIn.base.ok /\ fnIn.current.ok) =>
        /\ fnOut[1] <=> \/ RuleFamilies \/ RuleToothCount \/ RulePolygonVertices
                        \/ RuleRoundProfile \/ RuleToothedShape
        /\ (fnIn.base.family = "unknown" \/ fnIn.current.family = "unknown") => ~fnOut[1]
        /\ ~BothOf("toothed") =>
              (fnOut[1] <=> RuleFamilies \/ RulePolygonVertices \/ RuleRoundProfile)

\* C26's case: two toothed shapes one concavity apart trigger the detector
\* by their shape score alone
C26_Witness ==
    /\ GeometryCalled /\ fnIn.base.ok /\ fnIn.current.ok
    /\ RuleToothedShape /\ ~RuleToothCount
    /\ fnOut[1]

\* and two round shapes with that score and a circularity gap below the
\* threshold do not
C26_WitnessRound ==
    /\ GeometryCalled /\ fnIn.base.ok /\ fnIn.current.ok
    /\ BothOf("round") /\ fnIn.base.circularity # fnIn.current.circularity
    /\ fnIn.shapeScorePct > GeometryMatchMaxScorePct
    /\ ~fnOut[1]

\* C27: under every interleaving of a processDefectPhoto goroutine with the
\* later messages of its user, ProcessDefectPhotoDiff compares the defect
\* photo with the original accepted in the same check session, never with
\* one accepted afterwards.
C27_ComparedWithSessionOriginal ==
    \A j \in 1..Len(jobs) :
        jobs[j].base # <<>> => jobs[j].base = jobs[j].original

\* the user has begun another check and sent its original before the
\* goroutine of the first check looked the original up: the first defect
\* photo is compared with the second check's original
C27_ComparedWithLaterOriginal ==
    \E j \in 1..Len(jobs) :
        /\ jobs[j].pc = "done"
        /\ jobs[j].ret.err = ""
        /\ jobs[j].original = <<"jpegA">>
        /\ jobs[j].base = <<"jpegB">>

\* the dialog state of a user: a user the repository has not seen is
\* created in the main menu
StateOf(us, recs, userID) ==
    IF us[userID] = 0 THEN StateMainMenu ELSE recs[us[userID]].State

\* the handlers have handled one more update
UpdateHandled == botUpdates' = botUpdates + 1

C28_WitnessMainMenu ==
    /\ botUpdate # <<>>
    /\ botUpdate[1].msg = "jpegA"
    /\ botReply = msgStart
    /\ StateOf(users, userRecs, botUpdate[1].user) = StateMainMenu
    /\ originals[botUpdate[1].user] = <<"jpegB">>

\* Inspect has returned a result
InspectReturned == insPc = "done" /\ insErr = ""

\* C29: every InspectionResult returned by Inspect or InspectDiff, on every
\* return path (edge branch, geometry branch, diff branch, broken-part branch
\* and its structural-mask fallback), has has_defects equal to "the defect
\* list is non-empty".
C29_HasDefectsIffListNonEmpty ==
    /\ InspectReturned => (insRes.HasDefects <=> Len(insRes.Defects) > 0)
    /\ DiffReturned => (difRes.HasDefects <=> Len(difRes.Defects) > 0)

\* C29's cases: the structural-mask fallback has returned one defect
C29_Witness ==
    /\ DiffReturned /\ difPath = "broken_fallback"
    /\ Len(difRes.Defects) = 1 /\ difRes.HasDefects

\* the fallback has returned none
C29_WitnessFallbackEmpty ==
    /\ DiffReturned /\ difPath = "broken_fallback"
    /\ difRes.Defects = <<>> /\ ~difRes.HasDefects

\* the broken-part branch, the diff branch and the geometry branch have
\* returned defects
C29_WitnessBroken == DiffReturned /\ difPath = "broken" /\ difRes.HasDefects

C29_WitnessDiff == DiffReturned /\ difPath = "diff" /\ difRes.HasDefects

C29_WitnessDiffEmpty == DiffReturned /\ difPath = "diff" /\ difRes.Defects = <<>>

C29_WitnessGeometry == DiffReturned /\ difPath = "geometry" /\ difRes.HasDefects

\* Inspect has returned one defect, and none
C29_WitnessEdge == InspectReturned /\ Len(insRes.Defects) = 1 /\ insRes.HasDefects

C29_WitnessEdgeEmpty == InspectReturned /\ insRes.Defects = <<>> /\ ~insRes.HasDefects

\* GoCVDetector.HighlightDefects: the picture is decoded anew, at its own
\* size, and a rectangle is drawn for each defect of the result at the
\* defect's coordinates as they stand
HighlightDefects(imageData, result) ==
    LET dec == decodeToMat(imageData)
    IN  IF dec.err # ""
        THEN [err |-> dec.err, cols |-> 0, rows |-> 0, rects |-> <<>>]
        ELSE [err |-> "", cols |-> dec.mat.cols, rows |-> dec.mat.rows,
              rects |-> [i \in 1..Len(result.Defects) |->
                            Rect(result.Defects[i].X, result.Defects[i].Y,
                                 result.Defects[i].X + result.Defects[i].Width,
                                 result.Defects[i].Y + result.Defects[i].Height)]]

\* C30: for every output of ProcessDefectPhoto and ProcessDefectPhotoDiff
\* with has_defects true, the result's image_width and image_height equal
\* the dimensions of the image on which HighlightDefects draws the boxes.
C30_BoxesDrawnInTheirOwnFrame ==
    /\ (InspectReturned /\ insRes.HasDefects) =>
          LET drawn == HighlightDefects(insIn, insRes)
          IN  drawn.err = "" =>
                 /\ insRes.ImageWidth = drawn.cols
                 /\ insRes.ImageHeight = drawn.rows
    /\ (DiffReturned /\ difRes.HasDefects) =>
          LET drawn == HighlightDefects(currentImage, difRes)
          IN  drawn.err = "" =>
                 /\ difRes.ImageWidth = drawn.cols
                 /\ difRes.ImageHeight = drawn.rows

\* InspectDiff has returned defects in a frame narrower than the current
\* photo they are drawn on
C30_DrawnOnAWiderPhoto ==
    /\ DiffReturned /\ difRes.HasDefects
    /\ HighlightDefects(currentImage, difRes).err = ""
    /\ HighlightDefects(currentImage, difRes).cols > difRes.ImageWidth

\* Inspect has returned defects in the downscaled frame of a photo with a
\* side above MaxSide
C30_DrawnOnTheFullSizePhoto ==
    /\ InspectReturned /\ insRes.HasDefects
    /\ HighlightDefects(insIn, insRes).err = ""
    /\ HighlightDefects(insIn, insRes).rows > insRes.ImageHeight

=============================================================================
